---- MODULE Spec2Model ----
(***************************************************************************)
(* A model of the CHIP-8 virtual machine of chip8-rs: the bounded Stack    *)
(* (src/src/stack.rs), the Chip state container (src/src/lib.rs) and the   *)
(* Opcode decoder/executor (src/src/opcode.rs).                            *)
(*                                                                         *)
(* A Vec<u8> is modelled as a record [len, nz]: its length and the function*)
(* from the indices of its nonzero bytes to those bytes; every other index *)
(* below len holds 0.  A panic ends the process: the chip record keeps the *)
(* fields as they were when the panic was raised and carries its message in*)
(* the field `panic`; no operation acts on a chip that has panicked.       *)
(***************************************************************************)
EXTENDS Naturals, Integers, Sequences, FiniteSets, TLC

VARIABLES
    chip,             \* the Chip (lib.rs:88-100) and the panic that ended it, if any
    overflow_checks,  \* build profile: TRUE = debug (arithmetic overflow panics), FALSE = release (wraps)
    last,             \* history: the last operation on the chip, its inputs and its result
    calls,            \* history: the 2NNN executed and not yet returned from, oldest first
    stk,              \* a stand-alone Stack<T> (stack.rs:5-9)
    shadow,           \* history: the items pushed on stk and not yet popped, oldest first
    stk_last,         \* history: the last operation on stk, its input and its result
    hist              \* history: the ticks in a row that executed a shift, and the value
                      \* the last FX15 stored with the ticks executed since

vars == <<chip, overflow_checks, last, calls, stk, shadow, stk_last, hist>>

-----------------------------------------------------------------------------
(* Machine arithmetic *)

Min(a, b) == IF a < b THEN a ELSE b

Pow2(n) == IF n = 0 THEN 1 ELSE IF n = 1 THEN 2 ELSE IF n = 2 THEN 4
           ELSE IF n = 3 THEN 8 ELSE IF n = 4 THEN 16 ELSE IF n = 5 THEN 32
           ELSE IF n = 6 THEN 64 ELSE 128

Bit(a, i) == (a \div Pow2(i)) % 2

RECURSIVE BitAnd(_, _)
BitAnd(a, b) ==
    IF a = 0 \/ b = 0 THEN 0
    ELSE ((a % 2) * (b % 2)) + 2 * BitAnd(a \div 2, b \div 2)

RECURSIVE BitOr(_, _)
BitOr(a, b) ==
    IF a = 0 THEN b ELSE IF b = 0 THEN a
    ELSE (IF (a % 2) + (b % 2) > 0 THEN 1 ELSE 0) + 2 * BitOr(a \div 2, b \div 2)

RECURSIVE BitXor(_, _)
BitXor(a, b) ==
    IF a = 0 THEN b ELSE IF b = 0 THEN a
    ELSE (((a % 2) + (b % 2)) % 2) + 2 * BitXor(a \div 2, b \div 2)

U8 == 256

U16 == 65536

-----------------------------------------------------------------------------
(* Vec<u8> *)

VecZero(n) == [len |-> n, nz |-> [i \in {} |-> 0]]

VecGet(v, i) == IF i \in DOMAIN v.nz THEN v.nz[i] ELSE 0

VecSet(v, i, x) ==
    [v EXCEPT !.nz =
        IF x = 0
        THEN [j \in (DOMAIN v.nz) \ {i} |-> v.nz[j]]
        ELSE [j \in (DOMAIN v.nz) \cup {i} |-> IF j = i THEN x ELSE v.nz[j]]]

\* dst[at .. at+n-1] := src[1 .. n], src a sequence of bytes
VecCopyIn(v, at, src, n) ==
    LET range == at .. (at + n - 1)
        set   == {j \in range : src[j - at + 1] # 0}
    IN  [v EXCEPT !.nz =
            [j \in ((DOMAIN v.nz) \ range) \cup set |->
                IF j \in range THEN src[j - at + 1] ELSE v.nz[j]]]

\* Vec::clear: the vector keeps no element
VecClear(v) == VecZero(0)

-----------------------------------------------------------------------------
(* Stack<T>, src/src/stack.rs *)

StackDefault == [size |-> 0, head |-> 0, data |-> <<>>]

StackNew(size) == [size |-> size, head |-> 0, data |-> <<>>]

Ok(v) == [ok |-> TRUE, value |-> v]

Err(msg) == [ok |-> FALSE, value |-> msg]

\* mutant of PushGrows: the comparison lets one push too many through
PushGrowsPastSize(s) == s.head <= s.size

\* Stack::push and Stack::pop return the stack after the call and the Result
PushGrows(s) == s.head < s.size

\* mutant of push: a push on a full stack evicts the oldest item
push_evicts_oldest(s, item) ==
    IF s.head < s.size
    THEN [stack  |-> [s EXCEPT !.head = s.head + 1, !.data = Append(s.data, item)],
          result |-> Ok("unit")]
    ELSE IF s.size > 0
    THEN [stack  |-> [s EXCEPT !.data = Append(SubSeq(s.data, 2, Len(s.data)), item)],
          result |-> Err("Other")]
    ELSE [stack |-> s, result |-> Err("Other")]

push(s, item) ==
    IF PushGrows(s)
    THEN [stack  |-> [s EXCEPT !.head = s.head + 1, !.data = Append(s.data, item)],
          result |-> Ok("unit")]
    ELSE [stack |-> s, result |-> Err("Other")]

\* mutant of PopTaken: the pop hands out the oldest item
PopTakenOldest(data) == data[1]

PopTaken(data) == data[Len(data)]

PopRest(data) == SubSeq(data, 1, Len(data) - 1)

\* mutant of pop: the item is handed out and head is left as it was
pop_keeps_head(s) ==
    IF s.head > 0
    THEN IF Len(s.data) > 0
         THEN [stack  |-> [s EXCEPT !.data = PopRest(s.data)],
               result |-> Ok(PopTaken(s.data))]
         ELSE [stack |-> s, result |-> Err("Other")]
    ELSE [stack |-> s, result |-> Err("Other")]

pop(s) ==
    IF s.head > 0
    THEN IF Len(s.data) > 0
         THEN [stack  |-> [s EXCEPT !.head = s.head - 1, !.data = PopRest(s.data)],
               result |-> Ok(PopTaken(s.data))]
         ELSE [stack |-> s, result |-> Err("Other")]
    ELSE [stack |-> s, result |-> Err("Other")]

-----------------------------------------------------------------------------
(* Chip, src/src/lib.rs *)

MemLen == 4095

RomBase == 512

MAX_ROM_SIZE == 1024

StackSize == 16

NumRegisters == 16

NumKeys == 16

fonts ==
    << 240, 144, 144, 144, 240,    32,  96,  32,  32, 112,
       240,  16, 240, 128, 240,   240,  16, 240,  16, 240,
       144, 144, 240,  16,  16,   240, 128, 240,  16,  16,
       240, 128, 240, 144, 240,   240,  16,  32,  64,  64,
       240, 144, 240, 144, 240,   240, 144, 240,  16, 240,
       240, 144, 240, 144, 144,   224, 144, 224, 144, 224,
       240, 128, 128, 128, 240,   224, 144, 144, 144, 224,
       240, 128, 240, 128, 240,   240, 128, 240, 128, 128 >>

\* mutant of init_fonts: the glyphs are stored after a reserved area
init_fonts_after_reserved(memory) == VecCopyIn(memory, 16 * 5, fonts, 16 * 5)

init_fonts(memory) == VecCopyIn(memory, 0, fonts, 16 * 5)

NoKeys == [k \in 0 .. (NumKeys - 1) |-> FALSE]

ScreenLen(screen_width, screen_height) == (screen_width * screen_height) \div 8

ChipNew(screen_width, screen_height) ==
    [ memory          |-> init_fonts(VecZero(MemLen)),
      stack           |-> StackNew(StackSize),
      registers       |-> [r \in 0 .. (NumRegisters - 1) |-> 0],
      address         |-> 0,
      program_counter |-> RomBase,
      keys            |-> NoKeys,
      screen_buffer   |-> VecZero(ScreenLen(screen_width, screen_height)),
      screen_width    |-> screen_width,
      screen_height   |-> screen_height,
      delay_timer     |-> 0,
      sound_timer     |-> 0,
      panic           |-> "none" ]

Running(c) == c.panic = "none"

Panic(c, msg) == [c EXCEPT !.panic = msg]

\* A file is [exists, bytes]; File::read fills the slice memory[0x200..] from
\* the start of the file and returns the number of bytes it stored.
BytesRead(c, file) == Min(Len(file.bytes), c.memory.len - RomBase)

\* mutant of RomTooLarge: a ROM of exactly MAX_ROM_SIZE bytes is refused
RomTooLargeAtLimit(bytes_read) == bytes_read >= MAX_ROM_SIZE

RomTooLarge(bytes_read) == bytes_read > MAX_ROM_SIZE

\* mutant of load_rom: the size is checked before anything is written
load_rom_checks_first(c, file) ==
    IF ~file.exists
    THEN [chip |-> c, result |-> Err("NotFound")]
    ELSE LET bytes_read == BytesRead(c, file)
         IN  IF RomTooLarge(bytes_read)
             THEN [chip |-> c, result |-> Err("Rom file too large")]
             ELSE [chip |-> [c EXCEPT !.memory =
                                VecCopyIn(c.memory, RomBase, file.bytes, bytes_read)],
                   result |-> Ok("unit")]

load_rom(c, file) ==
    IF ~file.exists
    THEN [chip |-> c, result |-> Err("NotFound")]
    ELSE LET bytes_read == BytesRead(c, file)
             written == [c EXCEPT !.memory =
                            VecCopyIn(c.memory, RomBase, file.bytes, bytes_read)]
         IN  IF RomTooLarge(bytes_read)
             THEN [chip |-> written, result |-> Err("Rom file too large")]
             ELSE [chip |-> written, result |-> Ok("unit")]

\* mutant of reset: the memory and the screen are not reinitialized
reset_keeps_buffers(c) ==
    [ChipNew(c.screen_width, c.screen_height) EXCEPT
        !.memory = c.memory, !.screen_buffer = c.screen_buffer]

reset(c) == ChipNew(c.screen_width, c.screen_height)

\* u16 `+=`: panics in a build with overflow checks, wraps otherwise
increment_program_counter(c, step) ==
    LET sum == c.program_counter + 2 * step
    IN  IF sum >= U16 /\ overflow_checks
        THEN Panic(c, "attempt to add with overflow")
        ELSE [c EXCEPT !.program_counter = sum % U16]

\* mutant of get_pressed_key: the highest pressed key is reported
get_pressed_key_highest(c) ==
    IF \E k \in 0 .. (NumKeys - 1) : c.keys[k]
    THEN Ok(CHOOSE k \in 0 .. (NumKeys - 1) :
                c.keys[k] /\ \A j \in 0 .. (NumKeys - 1) : c.keys[j] => k >= j)
    ELSE Err("None")

get_pressed_key(c) ==
    IF \E k \in 0 .. (NumKeys - 1) : c.keys[k]
    THEN Ok(CHOOSE k \in 0 .. (NumKeys - 1) :
                c.keys[k] /\ \A j \in 0 .. (NumKeys - 1) : c.keys[j] => k <= j)
    ELSE Err("None")

\* update_keys overwrites the key-state array
update_keys(c, key_states) == [c EXCEPT !.keys = key_states]

-----------------------------------------------------------------------------
(* Opcode, src/src/opcode.rs: the nibble accessors *)

n1(opcode) == (opcode \div 4096) % 16

n2(opcode) == (opcode \div 256) % 16

n3(opcode) == (opcode \div 16) % 16

n4(opcode) == opcode % 16

constant(opcode) == opcode % 256

\* mutant of Low12: the opcode is handed on without the mask
Low12Unmasked(opcode) == opcode

Low12(opcode) == opcode % 4096

valid_registers(registers, c) ==
    IF Len(registers) = 0
    THEN Err("Other")
    ELSE IF \E i \in 1 .. Len(registers) : registers[i] >= NumRegisters
         THEN Err("Other")
         ELSE Ok("unit")

InvalidRegister(c, registers) == ~valid_registers(registers, c).ok

(* The instruction routines.  Each takes the chip and the routine's operands *)
(* and gives the chip after the routine, panicked or not.                    *)

clear_screen(c) ==
    increment_program_counter(
        [c EXCEPT !.screen_buffer = VecClear(c.screen_buffer)], 1)

\* mutant of return_from_subroutine: PC is left on the call instruction
return_without_advance(c) ==
    LET r == pop(c.stack)
    IN  IF r.result.ok
        THEN [c EXCEPT !.stack = r.stack, !.program_counter = r.result.value]
        ELSE Panic(c, "Error popping value off the stack. Exiting...")

return_from_subroutine(c) ==
    LET r == pop(c.stack)
    IN  IF r.result.ok
        THEN increment_program_counter(
                 [c EXCEPT !.stack = r.stack, !.program_counter = r.result.value], 1)
        ELSE Panic(c, "Error popping value off the stack. Exiting...")

jump_unconditional(c, address) ==
    IF address >= 4096
    THEN Panic(c, "Invalid memory address provided to jump!")
    ELSE [c EXCEPT !.program_counter = address]

\* mutant of call_subroutine: with the stack full the call is a plain jump
call_subroutine_jumps_when_full(c, address) ==
    IF address >= 4096
    THEN Panic(c, "Invalid memory address provided to call_subroutine!")
    ELSE LET r == push(c.stack, c.program_counter)
         IN  [c EXCEPT !.stack = r.stack, !.program_counter = address]

call_subroutine(c, address) ==
    IF address >= 4096
    THEN Panic(c, "Invalid memory address provided to call_subroutine!")
    ELSE LET r == push(c.stack, c.program_counter)
         IN  IF r.result.ok
             THEN [c EXCEPT !.stack = r.stack, !.program_counter = address]
             ELSE Panic(c, "The call stack has run out of space!")

skip_if_equal(c, vx, value) ==
    IF vx >= NumRegisters
    THEN Panic(c, "Invalid register provided")
    ELSE IF c.registers[vx] = value
         THEN increment_program_counter(c, 2)
         ELSE increment_program_counter(c, 1)

skip_if_not_equal(c, register, value) ==
    IF register >= NumRegisters
    THEN Panic(c, "Invalid register provided")
    ELSE IF c.registers[register] # value
         THEN increment_program_counter(c, 2)
         ELSE increment_program_counter(c, 1)

\* mutant of skip_equal_registers: the two outcomes are exchanged
skip_equal_registers_exchanged(c, vx, vy) ==
    IF vx >= NumRegisters \/ vy >= NumRegisters
    THEN Panic(c, "Invalid register provided")
    ELSE IF c.registers[vx] = c.registers[vy]
         THEN increment_program_counter(c, 1)
         ELSE increment_program_counter(c, 2)

skip_equal_registers(c, vx, vy) ==
    IF vx >= NumRegisters \/ vy >= NumRegisters
    THEN Panic(c, "Invalid register provided")
    ELSE IF c.registers[vx] = c.registers[vy]
         THEN increment_program_counter(c, 2)
         ELSE increment_program_counter(c, 1)

load_constant(c, vx, value) ==
    IF vx >= NumRegisters
    THEN Panic(c, "Invalid register provided")
    ELSE increment_program_counter([c EXCEPT !.registers[vx] = value], 1)

\* registers[vx] += registers[vx].wrapping_add(value)
AddConstantSum(old, value) == old + ((old + value) % U8)

add_constant(c, vx, value) ==
    IF InvalidRegister(c, <<vx>>)
    THEN Panic(c, "Invalid register in add_constant")
    ELSE LET sum == AddConstantSum(c.registers[vx], value)
         IN  IF sum >= U8 /\ overflow_checks
             THEN Panic(c, "attempt to add with overflow")
             ELSE increment_program_counter(
                      [c EXCEPT !.registers[vx] = sum % U8], 1)

set_vx_from_vy(c, vx, vy) ==
    IF InvalidRegister(c, <<vx, vy>>)
    THEN Panic(c, "Invalid register in set_vx_from_vy")
    ELSE increment_program_counter(
             [c EXCEPT !.registers[vx] = c.registers[vy]], 1)

vx_or_vy(c, vx, vy) ==
    IF InvalidRegister(c, <<vx, vy>>)
    THEN Panic(c, "Invalid register in vx_or_vy")
    ELSE increment_program_counter(
             [c EXCEPT !.registers[vx] = BitOr(c.registers[vx], c.registers[vy])], 1)

vx_and_vy(c, vx, vy) ==
    IF InvalidRegister(c, <<vx, vy>>)
    THEN Panic(c, "Invalid register in vx_and_vy")
    ELSE increment_program_counter(
             [c EXCEPT !.registers[vx] = BitAnd(c.registers[vx], c.registers[vy])], 1)

vx_xor_vy(c, vx, vy) ==
    IF InvalidRegister(c, <<vx, vy>>)
    THEN Panic(c, "Invalid register in vx_xor_vy")
    ELSE increment_program_counter(
             [c EXCEPT !.registers[vx] = BitXor(c.registers[vx], c.registers[vy])], 1)

\* u8::overflowing_add and u8::overflowing_sub: <<wrapped result, overflow>>
overflowing_add(a, b) == <<(a + b) % U8, a + b >= U8>>

overflowing_sub(a, b) == <<(a + U8 - b) % U8, a < b>>

FlagOf(b) == IF b THEN 1 ELSE 0

\* registers[vx] = x; registers[0xF] = flag, in this order
SetResultThenFlag(c, vx, x, flag) ==
    [c EXCEPT !.registers = [[c.registers EXCEPT ![vx] = x] EXCEPT ![15] = flag]]

add_vx_vy(c, vx, vy) ==
    IF InvalidRegister(c, <<vx, vy>>)
    THEN Panic(c, "Invalid register in add_vx_vy")
    ELSE LET r == overflowing_add(c.registers[vx], c.registers[vy])
         IN  increment_program_counter(
                 SetResultThenFlag(c, vx, r[1], FlagOf(r[2])), 1)

\* mutant of subtract_vx_vy: VF is the borrow instead of its negation
subtract_vx_vy_flags_borrow(c, vx, vy) ==
    IF InvalidRegister(c, <<vx, vy>>)
    THEN Panic(c, "Invalid register in subtract_vx_vy")
    ELSE LET r == overflowing_sub(c.registers[vx], c.registers[vy])
         IN  increment_program_counter(
                 SetResultThenFlag(c, vx, r[1], FlagOf(r[2])), 1)

subtract_vx_vy(c, vx, vy) ==
    IF InvalidRegister(c, <<vx, vy>>)
    THEN Panic(c, "Invalid register in subtract_vx_vy")
    ELSE LET r == overflowing_sub(c.registers[vx], c.registers[vy])
         IN  increment_program_counter(
                 SetResultThenFlag(c, vx, r[1], FlagOf(~r[2])), 1)

subtract_vy_vx(c, vx, vy) ==
    IF InvalidRegister(c, <<vx, vy>>)
    THEN Panic(c, "Invalid register in subtract_vy_vx")
    ELSE LET r == overflowing_sub(c.registers[vy], c.registers[vx])
         IN  increment_program_counter(
                 SetResultThenFlag(c, vx, r[1], FlagOf(~r[2])), 1)

\* mutant of shift_right_vx: the shift ends with increment_program_counter
shift_right_vx_advances(c, vx) ==
    IF InvalidRegister(c, <<vx>>)
    THEN Panic(c, "Invalid register in shift_right_vx")
    ELSE LET flagged == [c.registers EXCEPT ![15] = c.registers[vx] % 2]
         IN  increment_program_counter(
                 [c EXCEPT !.registers = [flagged EXCEPT ![vx] = flagged[vx] \div 2]], 1)

\* registers[0xF] = flag; then registers[vx] = f(registers[vx]); no PC change
shift_right_vx(c, vx) ==
    IF InvalidRegister(c, <<vx>>)
    THEN Panic(c, "Invalid register in shift_right_vx")
    ELSE LET flagged == [c.registers EXCEPT ![15] = c.registers[vx] % 2]
         IN  [c EXCEPT !.registers = [flagged EXCEPT ![vx] = flagged[vx] \div 2]]

shift_left_vx(c, vx) ==
    IF InvalidRegister(c, <<vx>>)
    THEN Panic(c, "Invalid register in shift_left_vx")
    ELSE LET flagged == [c.registers EXCEPT ![15] = (c.registers[vx] \div 128) % 2]
         IN  [c EXCEPT !.registers = [flagged EXCEPT ![vx] = (flagged[vx] * 2) % U8]]

skip_vx_not_equal_vy(c, vx, vy) ==
    IF InvalidRegister(c, <<vx, vy>>)
    THEN Panic(c, "Invalid register in skip_vx_not_equal_vy")
    ELSE IF c.registers[vx] # c.registers[vy]
         THEN increment_program_counter(c, 2)
         ELSE increment_program_counter(c, 1)

set_address_register(c, addr) ==
    increment_program_counter([c EXCEPT !.address = Low12(addr)], 1)

\* program_counter += mask_addr + registers[0]
jump_addr_v0(c, addr) ==
    LET sum == c.program_counter + Low12(addr) + c.registers[0]
    IN  IF sum >= U16 /\ overflow_checks
        THEN Panic(c, "attempt to add with overflow")
        ELSE [c EXCEPT !.program_counter = sum % U16]

set_vx_rand(c, vx, k, random_byte) ==
    IF InvalidRegister(c, <<vx>>)
    THEN Panic(c, "Invalid register in shift_right_vx")
    ELSE increment_program_counter(
             [c EXCEPT !.registers[vx] = BitAnd(random_byte, k)], 1)

\* mutant of pixel_collision: any lit pixel of the sprite over any lit pixel of the screen
pixel_collision_any_lit(b1, b2) == b1 # 0 /\ b2 # 0

pixel_collision(b1, b2) ==
    \E shift \in 0 .. 7 : Bit(b1, shift) # 0 /\ Bit(b2, shift) # 0

OutOfBounds == "index out of bounds"

\* One pass of the `for row in 0..height` loop of draw_sprite and the passes after it
RECURSIVE DrawRows(_, _, _, _, _)
DrawRows(c, vx, vy, row, height) ==
    IF row >= height
    THEN c
    ELSE LET sum == c.registers[vy] + row
             chunk_index == ((sum % U8) * c.screen_width) + c.registers[vx]
             mem_index == c.address + row
             chunk == VecGet(c.screen_buffer, chunk_index)
             new == VecGet(c.memory, mem_index)
             drawn == [c EXCEPT !.screen_buffer =
                          VecSet(c.screen_buffer, chunk_index, BitXor(chunk, new))]
         IN  IF sum >= U8 /\ overflow_checks
             THEN Panic(c, "attempt to add with overflow")
             ELSE IF chunk_index >= c.screen_buffer.len
             THEN Panic(c, OutOfBounds)
             ELSE IF mem_index >= c.memory.len
             THEN Panic(c, OutOfBounds)
             ELSE IF pixel_collision(chunk, new)
             THEN [drawn EXCEPT !.registers[15] = 1]
             ELSE DrawRows(drawn, vx, vy, row + 1, height)

draw_sprite(c, vx, vy, height) ==
    IF InvalidRegister(c, <<vx, vy>>)
    THEN Panic(c, "Invalid register in draw_sprite")
    ELSE LET rows == DrawRows([c EXCEPT !.registers[15] = 0], vx, vy, 0, height)
         IN  IF Running(rows) THEN increment_program_counter(rows, 1) ELSE rows

\* mutant of skip_on_keypress: the key tested is the one numbered like the register
skip_on_keypress_register_number(c, vx) ==
    IF InvalidRegister(c, <<vx>>)
    THEN Panic(c, "Invalid register in skip_on_keypress")
    ELSE IF c.keys[vx]
         THEN increment_program_counter(c, 2)
         ELSE increment_program_counter(c, 1)

skip_on_keypress(c, vx) ==
    IF InvalidRegister(c, <<vx>>)
    THEN Panic(c, "Invalid register in skip_on_keypress")
    ELSE IF c.registers[vx] >= NumKeys
    THEN Panic(c, OutOfBounds)
    ELSE IF c.keys[c.registers[vx]]
         THEN increment_program_counter(c, 2)
         ELSE increment_program_counter(c, 1)

\* mutant of skip_not_keypress: a key number outside the array counts as not pressed
skip_not_keypress_absent_key(c, vx) ==
    IF InvalidRegister(c, <<vx>>)
    THEN Panic(c, "Invalid register in skip_not_keypress")
    ELSE IF c.registers[vx] < NumKeys /\ c.keys[c.registers[vx]]
         THEN increment_program_counter(c, 1)
         ELSE increment_program_counter(c, 2)

skip_not_keypress(c, vx) ==
    IF InvalidRegister(c, <<vx>>)
    THEN Panic(c, "Invalid register in skip_not_keypress")
    ELSE IF c.registers[vx] >= NumKeys
    THEN Panic(c, OutOfBounds)
    ELSE IF c.keys[c.registers[vx]]
         THEN increment_program_counter(c, 1)
         ELSE increment_program_counter(c, 2)

\* mutant of get_delay_timer: the register index is reduced to 4 bits
get_delay_timer_clamped(c, vx) ==
    increment_program_counter(
        [c EXCEPT !.registers[vx % NumRegisters] = c.delay_timer], 1)

get_delay_timer(c, vx) ==
    IF vx >= NumRegisters
    THEN Panic(c, OutOfBounds)
    ELSE increment_program_counter(
             [c EXCEPT !.registers[vx] = c.delay_timer], 1)

wait_for_key(c, vx) ==
    IF InvalidRegister(c, <<vx>>)
    THEN Panic(c, "Invalid register in wait_for_key")
    ELSE LET key == get_pressed_key(c)
         IN  IF key.ok
             THEN increment_program_counter(
                      [c EXCEPT !.registers[vx] = key.value], 1)
             ELSE c

set_delay_timer(c, vx) ==
    IF InvalidRegister(c, <<vx>>)
    THEN Panic(c, "Invalid register in set_delay_timer")
    ELSE increment_program_counter(
             [c EXCEPT !.delay_timer = c.registers[vx]], 1)

set_sound_timer(c, vx) ==
    IF InvalidRegister(c, <<vx>>)
    THEN Panic(c, "Invalid register in set_sound_timer")
    ELSE increment_program_counter(
             [c EXCEPT !.sound_timer = c.registers[vx]], 1)

\* u16::overflowing_add
add_vx_to_address_register(c, vx) ==
    IF InvalidRegister(c, <<vx>>)
    THEN Panic(c, "Invalid register in add_vx_to_address_register")
    ELSE LET sum == c.address + c.registers[vx]
             added == [c EXCEPT !.address = sum % U16]
         IN  increment_program_counter(
                 [added EXCEPT !.registers[15] = FlagOf(sum >= U16)], 1)

\* u16::from(registers[vx] * 5): the product is a u8
get_font_sprite(c, vx) ==
    IF InvalidRegister(c, <<vx>>)
    THEN Panic(c, "Invalid register in get_font_sprite")
    ELSE LET product == c.registers[vx] * 5
         IN  IF product >= U8 /\ overflow_checks
             THEN Panic(c, "attempt to multiply with overflow")
             ELSE increment_program_counter(
                      [c EXCEPT !.address = product % U8], 1)

\* the loop of get_binary_coded_decimal that rebuilds the value bit by bit
RECURSIVE BcdBits(_, _)
BcdBits(binary_value, exponent) ==
    IF exponent >= 8
    THEN 0
    ELSE (IF binary_value % 2 = 1 THEN Pow2(exponent) ELSE 0)
         + BcdBits(binary_value \div 2, exponent + 1)

\* memory[address] = digit, or the index panic
StoreAtAddress(c, digit) ==
    IF c.address >= c.memory.len
    THEN Panic(c, OutOfBounds)
    ELSE [c EXCEPT !.memory = VecSet(c.memory, c.address, digit)]

\* address -= 1
AddressDown(c) ==
    IF c.address = 0
    THEN IF overflow_checks
         THEN Panic(c, "attempt to subtract with overflow")
         ELSE [c EXCEPT !.address = U16 - 1]
    ELSE [c EXCEPT !.address = c.address - 1]

\* address += 2
AddressUp2(c) ==
    IF c.address + 2 >= U16 /\ overflow_checks
    THEN Panic(c, "attempt to add with overflow")
    ELSE [c EXCEPT !.address = (c.address + 2) % U16]

Then(c, next) == IF Running(c) THEN next ELSE c

\* mutant of get_binary_coded_decimal: the address register is left at I + 2
get_binary_coded_decimal_moves_address(c, vx) ==
    IF InvalidRegister(c, <<vx>>)
    THEN Panic(c, "Invalid register in get_binary_coded_decimal")
    ELSE LET result == BcdBits(c.registers[vx], 0)
             s1 == StoreAtAddress(c, ((result \div 10) \div 10) % 10)
             s2 == Then(s1, [s1 EXCEPT !.address = (s1.address + 1) % U16])
             s3 == Then(s2, StoreAtAddress(s2, (result \div 10) % 10))
             s4 == Then(s3, [s3 EXCEPT !.address = (s3.address + 1) % U16])
             s5 == Then(s4, StoreAtAddress(s4, result % 10))
         IN  Then(s5, increment_program_counter(s5, 1))

get_binary_coded_decimal(c, vx) ==
    IF InvalidRegister(c, <<vx>>)
    THEN Panic(c, "Invalid register in get_binary_coded_decimal")
    ELSE LET result == BcdBits(c.registers[vx], 0)
             s1 == AddressUp2(c)
             s2 == Then(s1, StoreAtAddress(s1, result % 10))
             s3 == Then(s2, AddressDown(s2))
             s4 == Then(s3, StoreAtAddress(s3, (result \div 10) % 10))
             s5 == Then(s4, AddressDown(s4))
             s6 == Then(s5, StoreAtAddress(s5, ((result \div 10) \div 10) % 10))
         IN  Then(s6, increment_program_counter(s6, 1))

\* mutant of DumpFrom: the last address written may be the length of the memory
RECURSIVE DumpFromThroughEnd(_, _, _)
DumpFromThroughEnd(c, i, vx) ==
    IF i > vx
    THEN c
    ELSE IF c.address + i > c.memory.len
    THEN Panic(c, OutOfBounds)
    ELSE DumpFromThroughEnd(
             [c EXCEPT !.memory = VecSet(c.memory, c.address + i, c.registers[i])],
             i + 1, vx)

RECURSIVE DumpFrom(_, _, _)
DumpFrom(c, i, vx) ==
    IF i > vx
    THEN c
    ELSE IF c.address + i >= c.memory.len
    THEN Panic(c, OutOfBounds)
    ELSE DumpFrom([c EXCEPT !.memory = VecSet(c.memory, c.address + i, c.registers[i])],
                  i + 1, vx)

register_dump(c, vx) ==
    IF InvalidRegister(c, <<vx>>)
    THEN Panic(c, "Invalid register in register_dump")
    ELSE LET dumped == DumpFrom(c, 0, vx)
         IN  Then(dumped, increment_program_counter(dumped, 1))

\* mutant of LoadFrom: the loop is `for i in 0..vx`, the last register is not loaded
RECURSIVE LoadFromExclusive(_, _, _)
LoadFromExclusive(c, i, vx) ==
    IF i >= vx
    THEN c
    ELSE IF c.address + i >= c.memory.len
    THEN Panic(c, OutOfBounds)
    ELSE LoadFromExclusive([c EXCEPT !.registers[i] = VecGet(c.memory, c.address + i)],
                           i + 1, vx)

RECURSIVE LoadFrom(_, _, _)
LoadFrom(c, i, vx) ==
    IF i > vx
    THEN c
    ELSE IF c.address + i >= c.memory.len
    THEN Panic(c, OutOfBounds)
    ELSE LoadFrom([c EXCEPT !.registers[i] = VecGet(c.memory, c.address + i)],
                  i + 1, vx)

register_load(c, vx) ==
    IF InvalidRegister(c, <<vx>>)
    THEN Panic(c, "Invalid register in register_load")
    ELSE LET loaded == LoadFrom(c, 0, vx)
         IN  Then(loaded, increment_program_counter(loaded, 1))

IllegalOpcode(c) == Panic(c, "Illegal opcode!")

\* the height handed to draw_sprite by the 0xD arm: (n1 & 0xFF) as u8
DrawHeight(opcode) == BitAnd(n1(opcode), 255)

\* the register handed to the routines of the arms 8XY6 and 8XYE
ShiftRightOperand(opcode) == n2(opcode)

ShiftLeftOperand(opcode) == n3(opcode)

decode_execute(c, opcode, random_byte) ==
    LET a == n1(opcode)  x == n2(opcode)  y == n3(opcode)  d == n4(opcode)
    IN  CASE a = 0 ->
               (CASE d = 0 -> clear_screen(c)
                  [] d = 14 -> return_from_subroutine(c)
                  [] OTHER -> IllegalOpcode(c))
          [] a = 1 -> jump_unconditional(c, Low12(opcode))
          [] a = 2 -> call_subroutine(c, Low12(opcode))
          [] a = 3 -> skip_if_equal(c, x, constant(opcode))
          [] a = 4 -> skip_if_not_equal(c, x, constant(opcode))
          [] a = 5 -> skip_equal_registers(c, x, y)
          [] a = 6 -> load_constant(c, x, constant(opcode))
          [] a = 7 -> add_constant(c, x, constant(opcode))
          [] a = 8 ->
               (CASE d = 0 -> set_vx_from_vy(c, x, y)
                  [] d = 1 -> vx_or_vy(c, x, y)
                  [] d = 2 -> vx_and_vy(c, x, y)
                  [] d = 3 -> vx_xor_vy(c, x, y)
                  [] d = 4 -> add_vx_vy(c, x, y)
                  [] d = 5 -> subtract_vx_vy(c, x, y)
                  [] d = 6 -> shift_right_vx(c, ShiftRightOperand(opcode))
                  [] d = 7 -> subtract_vy_vx(c, x, y)
                  [] d = 14 -> shift_left_vx(c, ShiftLeftOperand(opcode))
                  [] OTHER -> IllegalOpcode(c))
          [] a = 9 -> skip_vx_not_equal_vy(c, x, y)
          [] a = 10 -> set_address_register(c, opcode)
          [] a = 11 -> jump_addr_v0(c, opcode)
          [] a = 12 -> set_vx_rand(c, x, constant(opcode), random_byte)
          [] a = 13 -> draw_sprite(c, x, y, DrawHeight(opcode))
          [] a = 14 ->
               (CASE y = 9 -> skip_on_keypress(c, x)
                  [] y = 10 -> skip_not_keypress(c, x)
                  [] OTHER -> IllegalOpcode(c))
          [] a = 15 ->
               (CASE y = 0 ->
                       (CASE d = 7 -> get_delay_timer(c, x)
                          [] d = 10 -> wait_for_key(c, x)
                          [] OTHER -> IllegalOpcode(c))
                  [] y = 1 ->
                       (CASE d = 5 -> set_delay_timer(c, x)
                          [] d = 8 -> set_sound_timer(c, x)
                          [] d = 14 -> add_vx_to_address_register(c, x)
                          [] OTHER -> IllegalOpcode(c))
                  [] y = 2 -> get_font_sprite(c, x)
                  [] y = 3 -> get_binary_coded_decimal(c, x)
                  [] y = 5 -> register_dump(c, x)
                  [] y = 6 -> register_load(c, x)
                  [] OTHER -> IllegalOpcode(c))
          [] OTHER -> IllegalOpcode(c)

\* mutant of TimerDown: wrapping_sub(1)
TimerDownWraps(t) == IF t >= 1 THEN t - 1 ELSE U8 - 1

\* u8::checked_sub(1).unwrap_or(0)
TimerDown(t) == IF t >= 1 THEN t - 1 ELSE 0

\* the opcode get_next_opcode reads at the program counter
FetchFaults(c) ==
    c.program_counter >= c.memory.len \/ c.program_counter + 1 >= c.memory.len

\* mutant of get_next_opcode: the byte at PC is taken as the low byte
get_next_opcode_little_endian(c) ==
    (VecGet(c.memory, c.program_counter + 1) * 256)
        + VecGet(c.memory, c.program_counter)

get_next_opcode(c) ==
    (VecGet(c.memory, c.program_counter) * 256)
        + VecGet(c.memory, c.program_counter + 1)

\* mutant of tick: a tick that finds the machine waiting in FX0A does nothing
tick_idle_while_blocked(c, random_byte) ==
    LET timed == [c EXCEPT !.delay_timer = TimerDown(c.delay_timer),
                           !.sound_timer = TimerDown(c.sound_timer)]
        opcode == get_next_opcode(c)
    IN  IF FetchFaults(timed)
        THEN Panic(timed, OutOfBounds)
        ELSE IF n1(opcode) = 15 /\ constant(opcode) = 10 /\ ~get_pressed_key(c).ok
        THEN c
        ELSE decode_execute(timed, opcode, random_byte)

\* mutant of tick: the timers count down after the instruction has executed
tick_counts_down_last(c, random_byte) ==
    IF FetchFaults(c)
    THEN Panic(c, OutOfBounds)
    ELSE LET done == decode_execute(c, get_next_opcode(c), random_byte)
         IN  [done EXCEPT !.delay_timer = TimerDown(done.delay_timer),
                          !.sound_timer = TimerDown(done.sound_timer)]

tick(c, random_byte) ==
    LET timed == [c EXCEPT !.delay_timer = TimerDown(c.delay_timer),
                           !.sound_timer = TimerDown(c.sound_timer)]
    IN  IF FetchFaults(timed)
        THEN Panic(timed, OutOfBounds)
        ELSE decode_execute(timed, get_next_opcode(timed), random_byte)

-----------------------------------------------------------------------------
(* The inputs of the model: ROM files, random bytes, key states, dimensions *)

Op(a, x, y, d) == (a * 4096) + (x * 256) + (y * 16) + d

OpAddr(a, nnn) == (a * 4096) + nnn

OpConst(a, x, kk) == (a * 4096) + (x * 256) + kk

\* the bytes of a file holding the opcodes `ops`, high byte first
RomBytes(ops) ==
    [i \in 1 .. (2 * Len(ops)) |->
        IF i % 2 = 1 THEN ops[(i + 1) \div 2] \div 256 ELSE ops[i \div 2] % 256]

RomFile(ops) == [exists |-> TRUE, bytes |-> RomBytes(ops)]

NoFile == [exists |-> FALSE, bytes |-> <<>>]

\* a file of n bytes: a jump to 0x200 followed by a byte pattern
PatternFile(n) ==
    [exists |-> TRUE,
     bytes  |-> [i \in 1 .. n |-> IF i = 1 THEN 18 ELSE IF i = 2 THEN 0 ELSE i % 256]]

\* the address of the k-th opcode of a ROM (k from 0)
At(k) == RomBase + 2 * k

Halt(k) == OpAddr(1, At(k))

RegSample == {0, 1, 15}

RandBytes == {0, 1, 128, 255}

\* subroutines three deep: main calls A, A calls B, B calls C
CallRom ==
    << OpAddr(2, At(2)), Halt(1),
       OpAddr(2, At(4)), 224 + 14,
       OpAddr(2, At(6)), 224 + 14,
       224 + 14 >>

\* a subroutine that calls itself
RecurseRom == << OpAddr(2, At(0)) >>

JumpRoms == { << OpAddr(1, nnn) >> : nnn \in {4092, 4094, 4095} }

\* 3X01, 4X80, 5XY0, 9XY0
SkipOp(a, x, y) ==
    IF a = 3 THEN OpConst(3, x, 1)
    ELSE IF a = 4 THEN OpConst(4, x, 128)
    ELSE Op(a, x, y, 0)

SkipRoms ==
    { << OpConst(12, x, 255), OpConst(12, y, 255), SkipOp(a, x, y), Halt(3), Halt(4) >> :
        x \in RegSample, y \in RegSample, a \in {3, 4, 5, 9} }

AluRoms ==
    { << OpConst(12, x, 255), OpConst(12, y, 255), Op(8, x, y, d), Halt(3) >> :
        x \in RegSample, y \in RegSample, d \in {4, 5, 7} }

AddConstantRoms ==
    { << OpConst(6, x, nn), OpConst(7, x, mm), Halt(2) >> :
        x \in {0, 15}, nn \in {0, 5, 255}, mm \in {0, 3, 255} }

\* FX33 and FX55 with I as construction left it
FontRoms ==
    { << Op(15, 0, 3, 3), Halt(1) >>,
      << OpConst(6, 0, 1), Op(15, 0, 5, 5), Halt(2) >> }

\* I := 0, the glyph "0", then DXYN with V0 = V1 = 0
DrawRoms ==
    { << OpAddr(10, 0), Op(13, 0, 1, n), Halt(2) >> : n \in {0, 1, 5} }

\* 00E0, then a one-row draw of the glyph "0"
ClearRom == << 224, OpAddr(10, 0), Op(13, 0, 1, 1), Halt(3) >>

\* 60NN, then BDF8
JumpV0Roms ==
    { << OpConst(6, 0, nn), OpAddr(11, 3576), Halt(2) >> : nn \in {0, 4} }

\* ANNN, 6XNN, FX1E
AddToAddressRoms ==
    { << OpAddr(10, nnn), OpConst(6, x, nn), Op(15, x, 1, 14), Halt(3) >> :
        nnn \in {256, 4095}, x \in {0, 15}, nn \in {0, 1, 255} }

\* FX0A, waiting for a key
WaitKeyRoms ==
    { << Op(15, x, 0, 10), Halt(1) >> : x \in {0, 15} }

\* V0 := 3, both timers := V0
TimerRom == << OpConst(6, 0, 3), Op(15, 0, 1, 5), Op(15, 0, 1, 8), Halt(3) >>

\* words that are no instruction: 0120, 00EF, 5011, 8018, 9013, E090, E0A0, F02F, F034
IllegalWords == {288, 239, 20497, 32792, 36883, 57488, 57504, 61487, 61492}

IllegalRoms ==
    { << w, Halt(1), Halt(2) >> : w \in IllegalWords }

\* 00EE with no call to return from
ReturnEmptyRom == << 238 >>

\* V0 := 0x81, V1 := 3, then 8XY6 or 8XYE
ShiftRoms ==
    { << OpConst(6, 0, 129), OpConst(6, 1, 3), Op(8, x, y, d), Halt(3) >> :
        x \in {0, 1}, y \in {0, 1}, d \in {6, 14} }

\* 60NN, then F029
FontSpriteRoms ==
    { << OpConst(6, 0, nn), Op(15, 0, 2, 9), Halt(2) >> : nn \in {0, 15, 51, 52, 255} }

\* ANNN, 6XNN, FX33
BcdRoms ==
    { << OpAddr(10, nnn), OpConst(6, x, nn), Op(15, x, 3, 3), Halt(3) >> :
        nnn \in {768, 4092}, x \in {0, 15}, nn \in {0, 7, 128, 255} }

\* V0 := 0x11, V1 := random, V2 := 7, I := 0x300, FX55, FX65
DumpLoadRoms ==
    { << OpConst(6, 0, 17), OpConst(12, 1, 255), OpConst(6, 2, 7), OpAddr(10, 768),
         Op(15, x, 5, 5), Op(15, x, 6, 5), Halt(6) >> : x \in {0, 1, 15} }

\* FX65 from the glyphs
LoadRoms ==
    { << OpConst(6, 2, 7), OpAddr(10, 5), Op(15, x, 6, 5), Halt(3) >> : x \in {0, 1} }

\* V3 := 2 or V2 := 5, then EX9E or EXA1
KeySkipRoms ==
    { << OpConst(6, xk[1], xk[2]), Op(14, xk[1], op[1], op[2]), Halt(2), Halt(3) >> :
        xk \in {<<3, 2>>, <<2, 5>>}, op \in {<<9, 14>>, <<10, 1>>} }

\* V1 := 0x81, VF := NN, then 8FY6 or 8FYE
ShiftFlagRoms ==
    { << OpConst(6, 1, 129), OpConst(6, 15, nn), Op(8, 15, y, d), Halt(3) >> :
        nn \in {1, 128, 255}, y \in {1, 15}, d \in {6, 14} }

\* V0 := 3, both timers := V0, then F10A
WaitTimerRom ==
    << OpConst(6, 0, 3), Op(15, 0, 1, 5), Op(15, 0, 1, 8), Op(15, 1, 0, 10), Halt(4) >>

\* V3 := 16 or 255, then E39E or E3A1
KeyFaultRoms ==
    { << OpConst(6, 3, nn), Op(14, 3, op[1], op[2]), Halt(2), Halt(3) >> :
        nn \in {16, 255}, op \in {<<9, 14>>, <<10, 1>>} }

\* FX33, F155, F165 and D011 at the end of the memory
EdgeOps == {Op(15, 0, 3, 3), Op(15, 1, 5, 5), Op(15, 1, 6, 5), Op(13, 0, 1, 1)}

\* I := 0xFFD, 0xFFE or 0xFFF, then one of them
EdgeRoms ==
    { << OpAddr(10, nnn), op, Halt(2) >> : nnn \in {4093, 4094, 4095}, op \in EdgeOps }

\* I := 0xFFF, V0 := 0xFF, I += V0, then one of them
AboveRoms ==
    { << OpAddr(10, 4095), OpConst(6, 0, 255), Op(15, 0, 1, 14), op, Halt(4) >> :
        op \in EdgeOps }

\* V2 := 0, n times
Pad(n) == [i \in 1 .. n |-> OpConst(6, 2, 0)]

\* V0 := v, FX15, n other instructions, FX07 into V1
TimerReadRoms ==
    { << OpConst(6, 0, v), Op(15, 0, 1, 5) >> \o Pad(n)
          \o << Op(15, 1, 0, 7), Halt(n + 3) >> : v \in {0, 1, 3}, n \in {0, 1, 3} }

Programs ==
    {CallRom, RecurseRom, ClearRom, TimerRom, ReturnEmptyRom, WaitTimerRom}
        \cup JumpRoms \cup SkipRoms \cup AluRoms \cup AddConstantRoms
        \cup FontRoms \cup DrawRoms \cup JumpV0Roms \cup AddToAddressRoms
        \cup WaitKeyRoms \cup IllegalRoms \cup ShiftRoms \cup FontSpriteRoms
        \cup BcdRoms \cup DumpLoadRoms \cup LoadRoms \cup KeySkipRoms
        \cup TimerReadRoms \cup ShiftFlagRoms \cup KeyFaultRoms
        \cup EdgeRoms \cup AboveRoms

FileSizes == {0, MAX_ROM_SIZE - 1, MAX_ROM_SIZE, MAX_ROM_SIZE + 1, MemLen - RomBase + 1}

Files ==
    {NoFile} \cup {RomFile(ops) : ops \in Programs} \cup {PatternFile(n) : n \in FileSizes}

KeysDown(S) == [k \in 0 .. (NumKeys - 1) |-> k \in S]

KeyStates == {KeysDown({}), KeysDown({2, 10})}

Dimensions == {<<64, 32>>, <<16, 8>>, <<8, 128>>}

-----------------------------------------------------------------------------
(* The machine: a Chip driven through its public operations *)

Did(op, opcode, file, result) ==
    [op |-> op, opcode |-> opcode, file |-> file, result |-> result]

IsShift(opcode) == n1(opcode) = 8 /\ n4(opcode) \in {6, 14}

IsSetDelay(opcode) == n1(opcode) = 15 /\ n3(opcode) = 1 /\ n4(opcode) = 5

\* the counters of hist stop at these numbers of ticks
MaxShiftTicks == 9

MaxTimerTicks == 5

\* no shift executed, no FX15 executed (delay = -1)
NoHist == [shifts |-> 0, delay |-> -1, ticks |-> 0]

\* the history after a tick that took `before` to `after`
HistAfter(before, after, opcode) ==
    LET fetched == ~FetchFaults(before)
    IN  [ shifts |-> IF fetched /\ IsShift(opcode) /\ Running(after)
                     THEN Min(hist.shifts + 1, MaxShiftTicks)
                     ELSE 0,
          delay  |-> IF fetched /\ IsSetDelay(opcode) /\ Running(after)
                     THEN before.registers[n2(opcode)]
                     ELSE hist.delay,
          ticks  |-> IF (fetched /\ IsSetDelay(opcode) /\ Running(after))
                        \/ hist.delay = -1
                     THEN 0
                     ELSE Min(hist.ticks + 1, MaxTimerTicks) ]

StackIdle == /\ stk = StackDefault
             /\ shadow = <<>>
             /\ stk_last = [op |-> "default", item |-> 0, result |-> Ok(0)]

Init ==
    /\ \E d \in Dimensions : chip = ChipNew(d[1], d[2])
    /\ overflow_checks \in BOOLEAN
    /\ last = Did("new", 0, NoFile, Ok("unit"))
    /\ calls = <<>>
    /\ hist = NoHist
    /\ StackIdle

Fresh(c) == c = ChipNew(c.screen_width, c.screen_height)

\* main() loads the ROM into the chip it has just constructed
LoadRom ==
    /\ Running(chip)
    /\ Fresh(chip)
    /\ \E file \in Files :
          LET r == load_rom(chip, file)
          IN  /\ chip' = r.chip
              /\ last' = Did("load_rom", 0, file, r.result)
    /\ UNCHANGED <<overflow_checks, calls, stk, shadow, stk_last, hist>>

IsCall(opcode) == n1(opcode) = 2

IsReturn(opcode) == opcode = 238

\* the call sites not yet returned to, after a tick that took `before` to `after`
CallsAfter(before, after, opcode) ==
    IF ~Running(after) \/ FetchFaults(before)
    THEN calls
    ELSE IF IsCall(opcode)
    THEN Append(calls, [site |-> before.program_counter, depth |-> before.stack.head])
    ELSE IF IsReturn(opcode) /\ calls # <<>>
    THEN SubSeq(calls, 1, Len(calls) - 1)
    ELSE calls

\* One frame of the driver: the keys the window reports are handed to
\* update_keys, then the chip executes one instruction
Tick ==
    /\ Running(chip)
    /\ \E key_states \in KeyStates, random_byte \in RandBytes :
          LET keyed  == update_keys(chip, key_states)
              opcode == IF FetchFaults(keyed) THEN 0 ELSE get_next_opcode(keyed)
              after  == tick(keyed, random_byte)
          IN  /\ chip' = after
              /\ last' = Did("tick", opcode, NoFile, Ok("unit"))
              /\ calls' = CallsAfter(keyed, after, opcode)
              /\ hist' = HistAfter(keyed, after, opcode)
    /\ UNCHANGED <<overflow_checks, stk, shadow, stk_last>>

\* what a reset finds: a chip as constructed, one whose screen buffer 00E0
\* has emptied, or another changed chip
Found(c) ==
    IF Fresh(c) THEN "fresh"
    ELSE IF c.screen_buffer.len # ScreenLen(c.screen_width, c.screen_height)
    THEN "cleared"
    ELSE "changed"

Reset ==
    /\ Running(chip)
    /\ chip' = reset(chip)
    /\ last' = Did("reset", 0, NoFile, Ok(Found(chip)))
    /\ calls' = <<>>
    /\ hist' = NoHist
    /\ UNCHANGED <<overflow_checks, stk, shadow, stk_last>>

Next == LoadRom \/ Tick \/ Reset

Spec == Init /\ [][Next]_vars

-----------------------------------------------------------------------------
(* A Stack<T> on its own, driven through push and pop *)

MaxCap == 3

MaxItem == 3

Items == 1 .. MaxItem

ChipIdle ==
    /\ chip = ChipNew(64, 32)
    /\ overflow_checks = FALSE
    /\ last = Did("new", 0, NoFile, Ok("unit"))
    /\ calls = <<>>
    /\ hist = NoHist

InitStack ==
    /\ ChipIdle
    /\ \/ /\ stk = StackDefault
          /\ stk_last = [op |-> "default", item |-> 0, result |-> Ok(0)]
       \/ /\ \E size \in 1 .. MaxCap : stk = StackNew(size)
          /\ stk_last = [op |-> "new", item |-> 0, result |-> Ok(0)]
    /\ shadow = <<>>

Push ==
    /\ \E item \in Items :
          LET r == push(stk, item)
          IN  /\ stk' = r.stack
              /\ stk_last' = [op |-> "push", item |-> item,
                              result |-> [r.result EXCEPT !.value = 0]]
              /\ shadow' = IF r.result.ok THEN Append(shadow, item) ELSE shadow
    /\ UNCHANGED <<chip, overflow_checks, last, calls, hist>>

Pop ==
    /\ LET r == pop(stk)
       IN  /\ stk' = r.stack
           /\ stk_last' = [op |-> "pop", item |-> 0,
                           result |-> IF r.result.ok THEN r.result
                                      ELSE [r.result EXCEPT !.value = 0]]
           /\ shadow' = IF r.result.ok /\ shadow # <<>>
                        THEN SubSeq(shadow, 1, Len(shadow) - 1)
                        ELSE shadow
    /\ UNCHANGED <<chip, overflow_checks, last, calls, hist>>

NextStack == Push \/ Pop

SpecStack == InitStack /\ [][NextStack]_vars

-----------------------------------------------------------------------------
(* draw_sprite on its own, called with a height as the unit tests call it *)

MaxRows == 2

MaxDraws == 2

\* the sprite lies after the area a ROM of 0x100 bytes would fill
SpriteAt == RomBase + 256

SpriteBytes == {0, 15, 165, 255}

ScreenBytes == {0, 165, 240, 255}

\* a screen buffer whose every byte is `byte`
VecFill(v, byte) ==
    [v EXCEPT !.nz = IF byte = 0 THEN [i \in {} |-> 0]
                     ELSE [i \in 0 .. (v.len - 1) |-> byte]]

\* V0 = x, V1 = y, I at a sprite of two rows, the screen filled with one byte
DrawSetup(c, x, y, row0, row1, screen) ==
    [c EXCEPT !.registers[0] = x,
              !.registers[1] = y,
              !.address = SpriteAt,
              !.memory = VecSet(VecSet(c.memory, SpriteAt, row0), SpriteAt + 1, row1),
              !.screen_buffer = VecFill(c.screen_buffer, screen)]

InitDraw ==
    /\ \E d \in Dimensions, x \in {0, 1}, y \in {0, 1},
          row0 \in SpriteBytes, row1 \in {0, 1}, screen \in ScreenBytes :
          chip = DrawSetup(ChipNew(d[1], d[2]), x, y, row0, row1, screen)
    /\ overflow_checks \in BOOLEAN
    /\ last = Did("new", 0, NoFile, Ok("unit"))
    /\ calls = <<>>
    /\ hist = NoHist
    /\ StackIdle

\* draw_sprite(chip, 0, 1, height): the operands of the opcode D01N
DrawSprite ==
    /\ Running(chip)
    /\ chip.program_counter < RomBase + 2 * MaxDraws
    /\ \E height \in 0 .. MaxRows :
          /\ chip' = draw_sprite(chip, 0, 1, height)
          /\ last' = Did("draw_sprite", Op(13, 0, 1, height), NoFile, Ok("unit"))
    /\ UNCHANGED <<overflow_checks, calls, stk, shadow, stk_last, hist>>

NextDraw == DrawSprite

SpecDraw == InitDraw /\ [][NextDraw]_vars

-----------------------------------------------------------------------------
(* The instruction routines on their own, called with any register operands *)

MaxOperand == 17

Operands == {0, 15} \cup (NumRegisters .. MaxOperand)

OneRegister ==
    { "skip_if_equal", "skip_if_not_equal", "load_constant", "add_constant",
      "shift_right_vx", "shift_left_vx", "set_vx_rand", "skip_on_keypress",
      "skip_not_keypress", "get_delay_timer", "wait_for_key", "set_delay_timer",
      "set_sound_timer", "add_vx_to_address_register", "get_font_sprite",
      "get_binary_coded_decimal", "register_dump", "register_load" }

TwoRegisters ==
    { "skip_equal_registers", "set_vx_from_vy", "vx_or_vy", "vx_and_vy", "vx_xor_vy",
      "add_vx_vy", "subtract_vx_vy", "subtract_vy_vx", "skip_vx_not_equal_vy",
      "draw_sprite" }

\* the routine `name` applied to the chip c with the register operands vx, vy
Routine(name, c, vx, vy) ==
    CASE name = "skip_if_equal" -> skip_if_equal(c, vx, 1)
      [] name = "skip_if_not_equal" -> skip_if_not_equal(c, vx, 1)
      [] name = "load_constant" -> load_constant(c, vx, 1)
      [] name = "add_constant" -> add_constant(c, vx, 1)
      [] name = "shift_right_vx" -> shift_right_vx(c, vx)
      [] name = "shift_left_vx" -> shift_left_vx(c, vx)
      [] name = "set_vx_rand" -> set_vx_rand(c, vx, 255, 128)
      [] name = "skip_on_keypress" -> skip_on_keypress(c, vx)
      [] name = "skip_not_keypress" -> skip_not_keypress(c, vx)
      [] name = "get_delay_timer" -> get_delay_timer(c, vx)
      [] name = "wait_for_key" -> wait_for_key(c, vx)
      [] name = "set_delay_timer" -> set_delay_timer(c, vx)
      [] name = "set_sound_timer" -> set_sound_timer(c, vx)
      [] name = "add_vx_to_address_register" -> add_vx_to_address_register(c, vx)
      [] name = "get_font_sprite" -> get_font_sprite(c, vx)
      [] name = "get_binary_coded_decimal" -> get_binary_coded_decimal(c, vx)
      [] name = "register_dump" -> register_dump(c, vx)
      [] name = "register_load" -> register_load(c, vx)
      [] name = "skip_equal_registers" -> skip_equal_registers(c, vx, vy)
      [] name = "set_vx_from_vy" -> set_vx_from_vy(c, vx, vy)
      [] name = "vx_or_vy" -> vx_or_vy(c, vx, vy)
      [] name = "vx_and_vy" -> vx_and_vy(c, vx, vy)
      [] name = "vx_xor_vy" -> vx_xor_vy(c, vx, vy)
      [] name = "add_vx_vy" -> add_vx_vy(c, vx, vy)
      [] name = "subtract_vx_vy" -> subtract_vx_vy(c, vx, vy)
      [] name = "subtract_vy_vx" -> subtract_vy_vx(c, vx, vy)
      [] name = "skip_vx_not_equal_vy" -> skip_vx_not_equal_vy(c, vx, vy)
      [] name = "draw_sprite" -> draw_sprite(c, vx, vy, 1)

\* a chip with a key pressed, a timer running and a register set
InitRoutine ==
    /\ \E v \in {0, 1}, k \in KeyStates :
          chip = [ChipNew(64, 32) EXCEPT !.registers[0] = v, !.registers[15] = 3,
                                         !.address = SpriteAt, !.delay_timer = 5,
                                         !.keys = k]
    /\ overflow_checks \in BOOLEAN
    /\ last = Did("new", 0, NoFile, Ok("unit"))
    /\ calls = <<>>
    /\ hist = NoHist
    /\ StackIdle

\* one call of a routine that takes one register operand
CallOneRegister ==
    /\ last.op = "new"
    /\ \E name \in OneRegister, vx \in Operands :
          /\ chip' = Routine(name, chip, vx, 0)
          /\ last' = Did(name, 0, NoFile, Ok(<<vx>>))
    /\ UNCHANGED <<overflow_checks, calls, stk, shadow, stk_last, hist>>

\* one call of a routine that takes two register operands
CallTwoRegisters ==
    /\ last.op = "new"
    /\ \E name \in TwoRegisters, vx \in Operands, vy \in Operands :
          /\ chip' = Routine(name, chip, vx, vy)
          /\ last' = Did(name, 0, NoFile, Ok(<<vx, vy>>))
    /\ UNCHANGED <<overflow_checks, calls, stk, shadow, stk_last, hist>>

NextRoutine == CallOneRegister \/ CallTwoRegisters

SpecRoutine == InitRoutine /\ [][NextRoutine]_vars

-----------------------------------------------------------------------------
(* The claims *)

\* a step of Tick whose fetch succeeded: the opcode executed is last'.opcode,
\* on the chip as update_keys left it
TickStep == last'.op = "tick" /\ ~FetchFaults(chip)

Executed == last'.opcode

Last(seq) == seq[Len(seq)]

Front(seq) == SubSeq(seq, 1, Len(seq) - 1)

\* C1: a 2NNN executed at address p with fewer than 16 return addresses on
\* the stack pushes p and sets PC to NNN; a 00EE that has a call to return
\* from sets PC to p + 2 for the site p of the latest call not yet returned
\* from, pops exactly that p and puts the stack back at the depth it had
\* before that call.
C1_CallReturnDiscipline ==
    [][TickStep =>
        /\ (IsCall(Executed) /\ chip.stack.head < StackSize) =>
              /\ Running(chip')
              /\ chip'.stack.data = Append(chip.stack.data, chip.program_counter)
              /\ chip'.stack.head = chip.stack.head + 1
              /\ chip'.program_counter = Low12(Executed)
        /\ (IsReturn(Executed) /\ calls # <<>>) =>
              /\ Running(chip')
              /\ chip'.program_counter = Last(calls).site + 2
              /\ chip'.stack.head = Last(calls).depth
              /\ chip'.stack.data = Front(chip.stack.data)
              /\ Last(chip.stack.data) = Last(calls).site
      ]_vars

\* a return from the innermost of three nested calls: two calls are still open
C1_Witness ==
    /\ last.op = "tick" /\ IsReturn(last.opcode) /\ Running(chip)
    /\ Len(calls) = 2
    /\ chip.stack.head = 2
    /\ chip.program_counter = At(5)

\* C2: the depth of the call stack is between 0 and 16 in every reachable state.
C2_StackDepthBounded ==
    /\ chip.stack.head \in 0 .. StackSize
    /\ Len(chip.stack.data) \in 0 .. StackSize

\* the stack is full, and the 2NNN after that has panicked
C2_Witness ==
    /\ chip.stack.head = StackSize
    /\ chip.panic = "The call stack has run out of space!"

\* C3: after any tick that completes, program_counter and program_counter + 1
\* are both indices inside the memory.
C3_PcAddressesInstructionPair ==
    (last.op = "tick" /\ Running(chip)) =>
        /\ chip.program_counter < chip.memory.len
        /\ chip.program_counter + 1 < chip.memory.len

SkipAdvance(cond) == IF cond THEN 4 ELSE 2

\* C4: 3XNN advances PC by 4 if Vx = NN else by 2; 4XNN by 4 if Vx # NN else
\* by 2; 5XY0 by 4 if Vx = Vy else by 2; 9XY0 by 4 if Vx # Vy else by 2; and
\* none of them changes a register.
C4_SkipAdvances ==
    [][TickStep =>
        LET a == n1(Executed)  x == n2(Executed)  y == n3(Executed)
            nn == constant(Executed)
            vx == chip.registers[x]  vy == chip.registers[y]
            advanced == chip'.program_counter - chip.program_counter
        IN  /\ a = 3 => advanced = SkipAdvance(vx = nn)
            /\ a = 4 => advanced = SkipAdvance(vx # nn)
            /\ (a = 5 /\ n4(Executed) = 0) => advanced = SkipAdvance(vx = vy)
            /\ (a = 9 /\ n4(Executed) = 0) => advanced = SkipAdvance(vx # vy)
            /\ (a \in {3, 4} \/ (a \in {5, 9} /\ n4(Executed) = 0)) =>
                  /\ Running(chip')
                  /\ chip'.registers = chip.registers
      ]_vars

\* a 9XY0 on two different registers that skipped
C4_Witness ==
    /\ last.op = "tick" /\ n1(last.opcode) = 9 /\ Running(chip)
    /\ n2(last.opcode) # n3(last.opcode)
    /\ chip.registers[n2(last.opcode)] # chip.registers[n3(last.opcode)]
    /\ chip.program_counter = At(4)

\* C5: after 8XY4, VF = 1 iff Vx + Vy > 255; after 8XY5, VF = 1 iff Vx >= Vy;
\* after 8XY7, VF = 1 iff Vy >= Vx; for X # F the destination Vx holds
\* (Vx + Vy) mod 256, (Vx - Vy) mod 256, (Vy - Vx) mod 256; PC advances by 2.
C5_ArithmeticFlags ==
    [][(TickStep /\ n1(Executed) = 8 /\ n4(Executed) \in {4, 5, 7}) =>
        LET x == n2(Executed)  y == n3(Executed)  d == n4(Executed)
            vx == chip.registers[x]  vy == chip.registers[y]
            flag == IF d = 4 THEN vx + vy > 255
                    ELSE IF d = 5 THEN vx >= vy ELSE vy >= vx
            value == IF d = 4 THEN (vx + vy) % 256
                     ELSE IF d = 5 THEN (vx - vy) % 256 ELSE (vy - vx) % 256
        IN  /\ Running(chip')
            /\ chip'.registers[15] = (IF flag THEN 1 ELSE 0)
            /\ x # 15 => chip'.registers[x] = value
            /\ \A r \in 0 .. 14 : r # x => chip'.registers[r] = chip.registers[r]
            /\ chip'.program_counter = chip.program_counter + 2
      ]_vars

\* an 8XY5 that borrowed: Vx < Vy before, so the difference wrapped and VF = 0
C5_Witness ==
    /\ last.op = "tick" /\ n1(last.opcode) = 8 /\ n4(last.opcode) = 5
    /\ n2(last.opcode) = 0 /\ n3(last.opcode) = 1
    /\ chip.registers[0] = 255 /\ chip.registers[1] = 1
    /\ chip.registers[15] = 0

\* C6: 7XNN sets Vx to (old Vx + NN) mod 256 for every old Vx and NN without
\* faulting, leaves VF as it was for X # F and advances PC by 2.
C6_AddConstantWraps ==
    [][(TickStep /\ n1(Executed) = 7) =>
        LET x == n2(Executed) IN
        /\ Running(chip')
        /\ chip'.registers[x] = (chip.registers[x] + constant(Executed)) % 256
        /\ x # 15 => chip'.registers[15] = chip.registers[15]
        /\ chip'.program_counter = chip.program_counter + 2
      ]_vars

\* C7: from every reachable state, reset() gives a chip equal, field by field,
\* to the one Chip::new gives for the same width and height.
C7_ResetRestoresNew ==
    [][last'.op = "reset" =>
        LET new == ChipNew(chip.screen_width, chip.screen_height)
        IN  /\ chip'.memory = new.memory
            /\ chip'.stack = new.stack
            /\ chip'.registers = new.registers
            /\ chip'.address = new.address
            /\ chip'.program_counter = new.program_counter
            /\ chip'.keys = new.keys
            /\ chip'.screen_buffer = new.screen_buffer
            /\ chip'.delay_timer = new.delay_timer
            /\ chip'.sound_timer = new.sound_timer
            /\ chip'.screen_width = chip.screen_width
            /\ chip'.screen_height = chip.screen_height
            /\ chip' = new
      ]_vars

\* a reset of a chip whose screen buffer a 00E0 had emptied
C7_Witness ==
    /\ last.op = "reset" /\ last.result.value = "cleared"
    /\ chip.screen_buffer.len = ScreenLen(chip.screen_width, chip.screen_height)
    /\ chip.program_counter = RomBase

\* C8: a push on a stack whose depth equals its capacity returns an error and
\* leaves the stack as it was; a pop on an empty stack returns an error and
\* leaves the stack as it was; every push on a stack built by default() fails.
C8_StackErrors ==
    [][/\ (stk_last'.op = "push" /\ stk.head = stk.size) =>
              ~stk_last'.result.ok /\ stk' = stk
       /\ (stk_last'.op = "pop" /\ stk.head = 0) =>
              ~stk_last'.result.ok /\ stk' = stk
       /\ (stk_last'.op = "push" /\ stk = StackDefault) =>
              ~stk_last'.result.ok
      ]_vars

\* a failed push on a full stack that holds items
C8_Witness ==
    /\ stk_last.op = "push" /\ ~stk_last.result.ok
    /\ stk.size = 2 /\ stk.head = 2 /\ stk.data = shadow /\ Len(shadow) = 2

\* C9: each successful pop returns the most recently pushed item not yet
\* popped, and a pop succeeds exactly when such an item exists; so N pushes
\* followed by N pops give the items in reverse order and an empty stack.
C9_StackLifo ==
    [][stk_last'.op = "pop" =>
        IF shadow = <<>>
        THEN ~stk_last'.result.ok
        ELSE /\ stk_last'.result.ok
             /\ stk_last'.result.value = Last(shadow)
             /\ stk'.head = Len(shadow) - 1
             /\ stk'.data = Front(shadow)
      ]_vars

\* pushes of 1, 2, 3 followed by the pops that returned 3 and then 2
C9_Witness ==
    /\ stk_last.op = "pop" /\ stk_last.result.ok /\ stk_last.result.value = 2
    /\ stk.size = 3 /\ shadow = <<1>> /\ stk.head = 1

\* C10: load_rom of a file of length <= 0x400 returns Ok and of a longer file
\* an error; after the load of a file of exactly 0x400 bytes
\* memory[0x200..0x600] equals the file byte for byte.
C10_LoadRomSize ==
    (last.op = "load_rom" /\ last.file.exists) =>
        LET n == Len(last.file.bytes)
        IN  /\ last.result.ok <=> n <= 1024
            /\ n <= 1024 =>
                  \A i \in 0 .. (n - 1) :
                      VecGet(chip.memory, 512 + i) = last.file.bytes[i + 1]
            /\ chip.memory.len = 4095

\* a file of exactly 0x400 bytes has been loaded
C10_Witness ==
    /\ last.op = "load_rom" /\ last.result.ok
    /\ Len(last.file.bytes) = 1024
    /\ VecGet(chip.memory, 512 + 1023) = last.file.bytes[1024]

\* C11: a load_rom of a file that cannot be opened fails and leaves the chip
\* as it was; a load_rom of a file longer than 0x400 bytes fails after the
\* bytes it read were stored from 0x200 on, so the memory is changed; in every
\* outcome memory[0x000..0x200) and every field but the memory are unchanged.
C11_LoadRomErrors ==
    [][last'.op = "load_rom" =>
        LET file == last'.file
            stored == Min(Len(file.bytes), MemLen - RomBase)
        IN  /\ ~file.exists => (~last'.result.ok /\ chip' = chip)
            /\ (file.exists /\ Len(file.bytes) > MAX_ROM_SIZE) =>
                  /\ ~last'.result.ok
                  /\ \A i \in 0 .. (stored - 1) :
                        VecGet(chip'.memory, RomBase + i) = file.bytes[i + 1]
                  /\ chip'.memory # chip.memory
            /\ \A i \in 0 .. (RomBase - 1) :
                  VecGet(chip'.memory, i) = VecGet(chip.memory, i)
            /\ [chip' EXCEPT !.memory = chip.memory] = chip
      ]_vars

\* a ROM of 0x401 bytes was refused, and its last byte is in the memory
C11_Witness ==
    /\ last.op = "load_rom" /\ last.file.exists /\ ~last.result.ok
    /\ Len(last.file.bytes) = MAX_ROM_SIZE + 1
    /\ VecGet(chip.memory, RomBase + MAX_ROM_SIZE) = last.file.bytes[MAX_ROM_SIZE + 1]
    /\ VecGet(chip.memory, RomBase + MAX_ROM_SIZE) # 0

\* C12: right after Chip::new, for any dimensions, memory[0..80] holds the 16
\* glyphs (memory[0] = 0xF0), every other byte of the memory is 0, the 16
\* registers, I and both timers are 0, no key is pressed, the stack is empty
\* and PC = 0x200.
C12_NewChip ==
    last.op = "new" =>
        /\ \A i \in 0 .. 79 : VecGet(chip.memory, i) = fonts[i + 1]
        /\ VecGet(chip.memory, 0) = 240
        /\ \A i \in 80 .. (chip.memory.len - 1) : VecGet(chip.memory, i) = 0
        /\ \A r \in 0 .. 15 : chip.registers[r] = 0
        /\ DOMAIN chip.registers = 0 .. 15
        /\ chip.address = 0
        /\ chip.delay_timer = 0 /\ chip.sound_timer = 0
        /\ \A k \in 0 .. 15 : ~chip.keys[k]
        /\ chip.stack.data = <<>> /\ chip.stack.head = 0
        /\ chip.program_counter = 512

\* a chip just constructed with a screen other than the default one
C12_Witness ==
    /\ last.op = "new"
    /\ chip.screen_width = 8 /\ chip.screen_height = 128
    /\ VecGet(chip.memory, 79) = 128

\* C13: in every reachable state memory[0x000..0x050) holds the 16 glyphs.
C13_FontsResident ==
    \A i \in 0 .. 79 : VecGet(chip.memory, i) = fonts[i + 1]

\* a step of DrawSprite that completed a draw of `height` rows
DrawStep(height) ==
    /\ last'.op = "draw_sprite" /\ n4(last'.opcode) = height
    /\ Running(chip')

\* C14: a one-row draw of the sprite byte s changes one screen byte d into
\* d XOR s and nothing else of the screen, sets VF to 1 if s AND d # 0 and to
\* 0 otherwise, and advances PC by 2.
C14_OneRowCollision ==
    [][DrawStep(1) =>
        LET s == VecGet(chip.memory, chip.address)
        IN  /\ \E i \in 0 .. (chip.screen_buffer.len - 1) :
                  LET d == VecGet(chip.screen_buffer, i)
                  IN  /\ chip'.screen_buffer = VecSet(chip.screen_buffer, i, BitXor(d, s))
                      /\ chip'.registers[15] = (IF BitAnd(s, d) # 0 THEN 1 ELSE 0)
            /\ chip'.program_counter = chip.program_counter + 2
      ]_vars

\* 0xA5 drawn onto a screen of 0xA5: one byte is 0, the flag is set
C14_Witness ==
    /\ last.op = "draw_sprite" /\ n4(last.opcode) = 1 /\ Running(chip)
    /\ VecGet(chip.memory, SpriteAt) = 165
    /\ chip.registers[15] = 1
    /\ chip.program_counter = RomBase + 2
    /\ Cardinality({i \in 0 .. (chip.screen_buffer.len - 1) :
                        VecGet(chip.screen_buffer, i) = 0}) = 1
    /\ Cardinality({i \in 0 .. (chip.screen_buffer.len - 1) :
                        VecGet(chip.screen_buffer, i) = 165}) = chip.screen_buffer.len - 1

\* the rows of a draw of `height` rows lie on the screen of chip c
RowsOnScreen(c, height) ==
    /\ c.registers[0] < c.screen_width \div 8
    /\ c.registers[1] + height <= c.screen_height

\* C16: row r of a draw modifies the screen byte of index
\* (Vy + r) * (screen_width / 8) + Vx and no other, and a draw whose rows lie
\* on the screen completes, every index being inside the buffer.
C16_RowByteIndex ==
    [][\A height \in 0 .. MaxRows :
        (last'.op = "draw_sprite" /\ n4(last'.opcode) = height) =>
            LET rows == {(chip.registers[1] + r) * (chip.screen_width \div 8)
                             + chip.registers[0] : r \in 0 .. (height - 1)}
            IN  /\ \A i \in 0 .. (chip.screen_buffer.len - 1) :
                      VecGet(chip'.screen_buffer, i) # VecGet(chip.screen_buffer, i)
                          => i \in rows
                /\ RowsOnScreen(chip, height) => Running(chip')
      ]_vars

\* the indices at which the screen buffers of two chips differ
ScreenDiff(before, after) ==
    {i \in 0 .. (before.screen_buffer.len - 1) :
        \/ i >= after.screen_buffer.len
        \/ VecGet(before.screen_buffer, i) # VecGet(after.screen_buffer, i)}

\* C15: a DXYN executed by tick processes N rows, N the lowest nibble of the
\* opcode: it changes at most N bytes of the screen, none for N = 0 and at
\* most one for N = 1.
C15_RowsDrawn ==
    [][(TickStep /\ n1(Executed) = 13 /\ Running(chip')) =>
        Cardinality(ScreenDiff(chip, chip')) <= n4(Executed)
      ]_vars

\* C17: in every reachable state the screen buffer has width * height / 8 bytes.
C17_ScreenBufferLength ==
    chip.screen_buffer.len = (chip.screen_width * chip.screen_height) \div 8

\* C18: 00E0 sets every byte of the screen buffer to 0 and keeps its length,
\* advances PC by 2 and changes nothing else.
C18_ClearScreenZeroes ==
    [][(TickStep /\ Executed = 224) =>
        /\ Running(chip')
        /\ chip'.screen_buffer.len = chip.screen_buffer.len
        /\ \A i \in 0 .. (chip.screen_buffer.len - 1) : VecGet(chip'.screen_buffer, i) = 0
        /\ chip'.program_counter = chip.program_counter + 2
        /\ chip'.registers = chip.registers
        /\ chip'.address = chip.address
        /\ chip'.memory = chip.memory
        /\ chip'.stack = chip.stack
      ]_vars

\* C19: BNNN sets PC to NNN + V0 whatever PC was, and changes nothing else.
C19_JumpAddrV0 ==
    [][(TickStep /\ n1(Executed) = 11) =>
        /\ Running(chip')
        /\ chip'.program_counter = Low12(Executed) + chip.registers[0]
        /\ chip'.registers = chip.registers
        /\ chip'.address = chip.address
        /\ chip'.memory = chip.memory
        /\ chip'.stack = chip.stack
        /\ chip'.screen_buffer = chip.screen_buffer
      ]_vars

\* C20: FX1E sets VF to 1 if old I + Vx > 0xFFF and to 0 otherwise, and
\* advances PC by 2.
C20_AddToAddressFlag ==
    [][(TickStep /\ n1(Executed) = 15 /\ n3(Executed) = 1 /\ n4(Executed) = 14) =>
        /\ Running(chip')
        /\ chip'.registers[15] =
              (IF chip.address + chip.registers[n2(Executed)] > 4095 THEN 1 ELSE 0)
        /\ chip'.program_counter = chip.program_counter + 2
      ]_vars

\* the keys the chip holds after a frame are the keys the frame reported
AnyKey(c) == \E k \in 0 .. 15 : c.keys[k]

LowestKey(c) == CHOOSE k \in 0 .. 15 : c.keys[k] /\ \A j \in 0 .. (k - 1) : ~c.keys[j]

IsWaitKey(opcode) == n1(opcode) = 15 /\ n3(opcode) = 0 /\ n4(opcode) = 10

\* C21: a tick whose opcode is FX0A leaves PC and every register as they were
\* if no key is pressed, and otherwise sets Vx to the number of the lowest
\* pressed key, leaves the other registers and advances PC by 2.
C21_WaitForKey ==
    [][(TickStep /\ IsWaitKey(Executed)) =>
        /\ Running(chip')
        /\ ~AnyKey(chip') =>
              /\ chip'.program_counter = chip.program_counter
              /\ chip'.registers = chip.registers
        /\ AnyKey(chip') =>
              /\ chip'.program_counter = chip.program_counter + 2
              /\ chip'.registers =
                    [chip.registers EXCEPT ![n2(Executed)] = LowestKey(chip')]
      ]_vars

\* F00A has ended with keys 2 and 10 pressed: V0 = 2, the lower of the two
C21_Witness ==
    /\ last.op = "tick" /\ IsWaitKey(last.opcode) /\ Running(chip)
    /\ chip.keys[2] /\ chip.keys[10]
    /\ chip.registers[0] = 2
    /\ chip.program_counter = At(1)

IsSetSound(opcode) == n1(opcode) = 15 /\ n3(opcode) = 1 /\ n4(opcode) = 8

Saturating(t) == IF t = 0 THEN 0 ELSE t - 1

\* C22: every tick reduces a nonzero timer by exactly 1 and leaves a timer
\* that is 0 at 0, unless the instruction of the tick is the FX15 (delay) or
\* FX18 (sound) that writes the timer, which then holds Vx.
C22_TimersSaturate ==
    [][last'.op = "tick" =>
        /\ chip'.delay_timer =
              (IF TickStep /\ IsSetDelay(Executed) /\ Running(chip')
               THEN chip.registers[n2(Executed)]
               ELSE Saturating(chip.delay_timer))
        /\ chip'.sound_timer =
              (IF TickStep /\ IsSetSound(Executed) /\ Running(chip')
               THEN chip.registers[n2(Executed)]
               ELSE Saturating(chip.sound_timer))
      ]_vars

\* the delay timer, set to 3 four ticks ago, is 0; the sound timer, set one
\* tick later, is still running
C22_Witness ==
    /\ last.op = "tick" /\ Running(chip)
    /\ chip.registers[0] = 3
    /\ chip.delay_timer = 0
    /\ chip.sound_timer = 1
    /\ chip.program_counter = At(3)

\* the encodings of the instruction table
Legal(opcode) ==
    LET a == n1(opcode)  y == n3(opcode)  d == n4(opcode)
    IN  \/ opcode = 224 \/ opcode = 238
        \/ a \in {1, 2, 3, 4, 6, 7, 10, 11, 12, 13}
        \/ a = 5 /\ d = 0
        \/ a = 8 /\ d \in {0, 1, 2, 3, 4, 5, 6, 7, 14}
        \/ a = 9 /\ d = 0
        \/ a = 14 /\ ((y = 9 /\ d = 14) \/ (y = 10 /\ d = 1))
        \/ a = 15 /\ <<y, d>> \in {<<0, 7>>, <<0, 10>>, <<1, 5>>, <<1, 8>>, <<1, 14>>,
                                   <<2, 9>>, <<3, 3>>, <<5, 5>>, <<6, 5>>}

\* C23: a word that is not an encoding of the instruction table stops
\* decode_execute with the illegal-opcode fault; the registers, I, PC, the
\* stack, the memory and the screen are left as they were.
C23_IllegalOpcodeFaults ==
    [][(TickStep /\ ~Legal(Executed)) =>
        /\ chip'.panic = "Illegal opcode!"
        /\ chip'.registers = chip.registers
        /\ chip'.address = chip.address
        /\ chip'.program_counter = chip.program_counter
        /\ chip'.stack = chip.stack
        /\ chip'.memory = chip.memory
        /\ chip'.screen_buffer = chip.screen_buffer
      ]_vars

RegisterLists ==
    { <<>>, <<0>>, <<15>>, <<16>>, <<17>>, <<0, 16>>, <<16, 0>>, <<15, 0>>,
      [i \in 1 .. 15 |-> i - 1], Append([i \in 1 .. 15 |-> i - 1], 16) }

AllBelow16(registers) == \A i \in 1 .. Len(registers) : registers[i] < 16

\* C24: a routine called with a register operand >= 16 faults and leaves the
\* registers, the memory, I, PC, the timers and the screen as they were;
\* valid_registers gives an error for the empty list and for a list holding
\* an index >= 16, and Ok for any other list.
C24_RegisterValidation ==
    [][last'.op \in (OneRegister \cup TwoRegisters) =>
        LET operands == last'.result.value
        IN  /\ ~AllBelow16(operands) =>
                  /\ ~Running(chip')
                  /\ [chip' EXCEPT !.panic = "none"] = chip
            /\ valid_registers(operands, chip).ok = AllBelow16(operands)
            /\ \A registers \in RegisterLists :
                  valid_registers(registers, chip).ok =
                      (registers # <<>> /\ AllBelow16(registers))
      ]_vars

\* get_delay_timer, which does not call valid_registers, was given register 16
C24_Witness ==
    /\ last.op = "get_delay_timer"
    /\ last.result.value = <<16>>
    /\ ~Running(chip)
    /\ chip.delay_timer = 5
    /\ chip.program_counter = RomBase

\* C25: a 2NNN executed with 16 return addresses on the stack, and a 00EE
\* executed with none, stop the execution and leave PC and the stack as they
\* were.
C25_StackMisuseFaults ==
    [][TickStep =>
        /\ (IsCall(Executed) /\ chip.stack.head = StackSize) =>
              /\ ~Running(chip')
              /\ chip'.program_counter = chip.program_counter
              /\ chip'.stack = chip.stack
        /\ (IsReturn(Executed) /\ chip.stack.head = 0) =>
              /\ ~Running(chip')
              /\ chip'.program_counter = chip.program_counter
              /\ chip'.stack = chip.stack
      ]_vars

\* a 00EE at 0x200 on an empty stack has stopped the chip
C25_Witness ==
    /\ last.op = "tick" /\ IsReturn(last.opcode)
    /\ chip.panic = "Error popping value off the stack. Exiting..."
    /\ chip.stack.data = <<>>
    /\ chip.program_counter = RomBase

\* C26: 8XY6 sets VF to bit 0 of Vx and Vx to Vx >> 1, 8XYE sets VF to bit 7
\* of Vx and Vx to (Vx << 1) mod 256, for X in 0..E; the register shifted is
\* the one the second nibble names and no register but Vx and VF changes.
C26_ShiftsRegisterX ==
    [][(TickStep /\ IsShift(Executed) /\ n2(Executed) # 15) =>
        LET x == n2(Executed)
            old == chip.registers[x]
        IN  /\ Running(chip')
            /\ chip'.registers =
                  IF n4(Executed) = 6
                  THEN [chip.registers EXCEPT ![x] = old \div 2, ![15] = old % 2]
                  ELSE [chip.registers EXCEPT ![x] = (old * 2) % 256, ![15] = old \div 128]
      ]_vars

IsFontSprite(opcode) == n1(opcode) = 15 /\ n3(opcode) = 2 /\ n4(opcode) = 9

\* C27: FX29 sets I to Vx * 5 for every Vx in 0..255, without truncation to
\* 8 bits and without fault, and advances PC by 2.
C27_FontSpriteAddress ==
    [][(TickStep /\ IsFontSprite(Executed)) =>
        /\ Running(chip')
        /\ chip'.address = chip.registers[n2(Executed)] * 5
        /\ chip'.program_counter = chip.program_counter + 2
      ]_vars

IsBcd(opcode) == n1(opcode) = 15 /\ n3(opcode) = 3 /\ n4(opcode) = 3

\* C28: for I + 2 inside the memory, FX33 stores the hundreds, tens and ones
\* digits of Vx at memory[I], memory[I + 1], memory[I + 2], leaves I, the
\* registers and every other byte of the memory as they were and advances PC
\* by 2.
C28_BinaryCodedDecimal ==
    [][(TickStep /\ IsBcd(Executed) /\ chip.address + 2 < chip.memory.len) =>
        LET v == chip.registers[n2(Executed)]
            i == chip.address
        IN  /\ Running(chip')
            /\ VecGet(chip'.memory, i) = v \div 100
            /\ VecGet(chip'.memory, i + 1) = (v \div 10) % 10
            /\ VecGet(chip'.memory, i + 2) = v % 10
            /\ \A j \in (0 .. (chip.memory.len - 1)) \ {i, i + 1, i + 2} :
                  VecGet(chip'.memory, j) = VecGet(chip.memory, j)
            /\ chip'.memory.len = chip.memory.len
            /\ chip'.address = i
            /\ chip'.registers = chip.registers
            /\ chip'.program_counter = chip.program_counter + 2
      ]_vars

\* V15 = 255 was stored as 2, 5, 5 in the last three bytes of the memory
C28_Witness ==
    /\ last.op = "tick" /\ IsBcd(last.opcode) /\ Running(chip)
    /\ chip.address = 4092
    /\ chip.registers[15] = 255
    /\ VecGet(chip.memory, 4092) = 2
    /\ VecGet(chip.memory, 4093) = 5
    /\ VecGet(chip.memory, 4094) = 5

IsDump(opcode) == n1(opcode) = 15 /\ n3(opcode) = 5 /\ n4(opcode) = 5

IsLoad(opcode) == n1(opcode) = 15 /\ n3(opcode) = 6 /\ n4(opcode) = 5

\* C29: for I + X inside the memory, FX55 stores V0..Vx at memory[I..I+X] and
\* FX65 loads V0..Vx from memory[I..I+X]; both leave I, the registers above
\* X and the memory outside [I, I+X] as they were and advance PC by 2; an
\* FX65 right after the FX55 with the same X leaves every register as it was.
C29_RegisterDumpLoad ==
    [][TickStep =>
        LET x == n2(Executed)
            i == chip.address
        IN  /\ (IsDump(Executed) /\ i + x < chip.memory.len) =>
                  /\ Running(chip')
                  /\ \A j \in 0 .. (chip.memory.len - 1) :
                        VecGet(chip'.memory, j) =
                            (IF j \in i .. (i + x) THEN chip.registers[j - i]
                             ELSE VecGet(chip.memory, j))
                  /\ chip'.registers = chip.registers
                  /\ chip'.address = i
                  /\ chip'.program_counter = chip.program_counter + 2
            /\ (IsLoad(Executed) /\ i + x < chip.memory.len) =>
                  /\ Running(chip')
                  /\ chip'.registers =
                        [r \in 0 .. 15 |-> IF r <= x THEN VecGet(chip.memory, i + r)
                                           ELSE chip.registers[r]]
                  /\ chip'.memory = chip.memory
                  /\ chip'.address = i
                  /\ chip'.program_counter = chip.program_counter + 2
                  /\ (last.op = "tick" /\ IsDump(last.opcode) /\ n2(last.opcode) = x)
                        => chip'.registers = chip.registers
      ]_vars

\* V0 and V1 were loaded from the glyph bytes memory[5] = 0x20, memory[6] = 0x60
C29_Witness ==
    /\ last.op = "tick" /\ IsLoad(last.opcode) /\ Running(chip)
    /\ chip.address = 5
    /\ chip.registers[0] = 32 /\ chip.registers[1] = 96 /\ chip.registers[2] = 7

IsSkipKey(opcode) == n1(opcode) = 14 /\ n3(opcode) = 9 /\ n4(opcode) = 14

IsSkipNotKey(opcode) == n1(opcode) = 14 /\ n3(opcode) = 10 /\ n4(opcode) = 1

\* C30: for Vx in 0..15, EX9E advances PC by 4 if the key numbered Vx is
\* pressed and by 2 if not, EXA1 by 4 if it is not pressed and by 2 if it
\* is, and neither changes a register.
C30_SkipOnKey ==
    [][(TickStep /\ (IsSkipKey(Executed) \/ IsSkipNotKey(Executed))
                 /\ chip.registers[n2(Executed)] < 16) =>
        LET pressed == chip'.keys[chip.registers[n2(Executed)]]
        IN  /\ Running(chip')
            /\ chip'.program_counter =
                  chip.program_counter + SkipAdvance(pressed = IsSkipKey(Executed))
            /\ chip'.registers = chip.registers
      ]_vars

\* E39E with V3 = 2: key 2 is pressed and key 3 is not, and the skip is taken
C30_Witness ==
    /\ last.op = "tick" /\ last.opcode = Op(14, 3, 9, 14) /\ Running(chip)
    /\ chip.registers[3] = 2
    /\ chip.keys[2] /\ ~chip.keys[3]
    /\ chip.program_counter = At(3)

\* the register the shift of `opcode` works on
ShiftedRegister(opcode) ==
    IF n4(opcode) = 6 THEN ShiftRightOperand(opcode) ELSE ShiftLeftOperand(opcode)

\* C31: a tick that executes 8XY6 or 8XYE leaves PC as it was, so the next
\* tick fetches the same opcode again; after 8 such ticks in a row, and after
\* every later one, the shifted register is 0.
C31_ShiftsStall ==
    /\ [][(TickStep /\ IsShift(Executed)) =>
            /\ Running(chip')
            /\ chip'.program_counter = chip.program_counter
            /\ ~FetchFaults(chip')
            /\ get_next_opcode(chip') = Executed
         ]_vars
    /\ [](hist.shifts >= 8 =>
            /\ last.op = "tick" /\ IsShift(last.opcode)
            /\ chip.registers[ShiftedRegister(last.opcode)] = 0)

\* the eighth 8016 in a row: V0 = 0x81 has just become 0, its last bit in VF
C31_Witness ==
    /\ hist.shifts = 8
    /\ last.opcode = Op(8, 0, 1, 6)
    /\ chip.registers[0] = 0 /\ chip.registers[15] = 1
    /\ chip.program_counter = At(2)

\* the screen byte row r of a draw with the operands V0, V1 addresses on chip c
RowByte(c, r) == ((c.registers[1] + r) * c.screen_width) + c.registers[0]

\* row r of the sprite at I has a set bit over a set bit of the screen of c
RowCollides(c, r) ==
    BitAnd(VecGet(c.screen_buffer, RowByte(c, r)), VecGet(c.memory, c.address + r)) # 0

\* C32: a draw of `height` rows that completes leaves every addressed screen
\* byte XORed with its sprite row, the rows after a row that collided
\* included, and no other byte changed; VF = 1 iff at least one row collided;
\* the same draw done again gives back the screen buffer as it was.
C32_AllRowsDrawn ==
    [][\A height \in 0 .. MaxRows :
        DrawStep(height) =>
            LET rows == 0 .. (height - 1)
            IN  /\ \A i \in 0 .. (chip.screen_buffer.len - 1) :
                      VecGet(chip'.screen_buffer, i) =
                          (IF \E r \in rows : RowByte(chip, r) = i
                           THEN LET r == CHOOSE q \in rows : RowByte(chip, q) = i
                                IN  BitXor(VecGet(chip.screen_buffer, i),
                                           VecGet(chip.memory, chip.address + r))
                           ELSE VecGet(chip.screen_buffer, i))
                /\ chip'.registers[15] =
                      (IF \E r \in rows : RowCollides(chip, r) THEN 1 ELSE 0)
                /\ draw_sprite(chip', 0, 1, height).screen_buffer = chip.screen_buffer
      ]_vars

\* C33: the opcode a tick executes is memory[PC] * 256 + memory[PC + 1]; its
\* accessors give the four 4-bit digits of the opcode from the highest to the
\* lowest, the low byte and the low 12 bits, and the digits put together
\* give the opcode; the tick changes the chip as one execution of that
\* opcode does, after the keys were stored and both timers counted down.
C33_FetchDecode ==
    [][TickStep =>
        LET opcode == Executed
            pc == chip.program_counter
            a == n1(opcode)  b == n2(opcode)  c == n3(opcode)  d == n4(opcode)
            timed == [chip EXCEPT !.keys = chip'.keys,
                                  !.delay_timer = Saturating(chip.delay_timer),
                                  !.sound_timer = Saturating(chip.sound_timer)]
        IN  /\ opcode = (VecGet(chip.memory, pc) * 256) + VecGet(chip.memory, pc + 1)
            /\ {a, b, c, d} \subseteq 0 .. 15
            /\ opcode = (a * 4096) + (b * 256) + (c * 16) + d
            /\ constant(opcode) = (c * 16) + d
            /\ constant(opcode) = VecGet(chip.memory, pc + 1)
            /\ Low12(opcode) = (b * 256) + (c * 16) + d
            /\ \E random_byte \in RandBytes :
                  chip' = decode_execute(timed, opcode, random_byte)
      ]_vars

\* BDF8 was fetched from the bytes 0xBD, 0xF8 at 0x202 and executed
C33_Witness ==
    /\ last.op = "tick" /\ last.opcode = 48632 /\ Running(chip)
    /\ VecGet(chip.memory, At(1)) = 189 /\ VecGet(chip.memory, At(1) + 1) = 248
    /\ n1(last.opcode) = 11 /\ n2(last.opcode) = 13
    /\ n3(last.opcode) = 15 /\ n4(last.opcode) = 8
    /\ chip.program_counter = At(1) + 3576 + chip.registers[0]

IsGetDelay(opcode) == n1(opcode) = 15 /\ n3(opcode) = 0 /\ n4(opcode) = 7

Monus(a, b) == IF a > b THEN a - b ELSE 0

\* C34: the tick that executes FX15 ends with delay_timer = Vx and the one
\* that executes FX18 with sound_timer = Vx; an FX07 executed on the k-th
\* tick after the FX15 that stored v loads max(v - k, 0).
C34_TimerOrder ==
    [][TickStep =>
        LET x == n2(Executed)
            v == hist.delay
            k == hist'.ticks
        IN  /\ IsSetDelay(Executed) =>
                  Running(chip') /\ chip'.delay_timer = chip.registers[x]
            /\ IsSetSound(Executed) =>
                  Running(chip') /\ chip'.sound_timer = chip.registers[x]
            /\ (IsGetDelay(Executed) /\ v # -1) =>
                  /\ Running(chip')
                  /\ k >= 1
                  /\ k < MaxTimerTicks => chip'.registers[x] = Monus(v, k)
                  /\ k = MaxTimerTicks => chip'.registers[x] <= Monus(v, k)
      ]_vars

\* F107 on the second tick after the F015 that stored 3: V1 = 1
C34_Witness ==
    /\ last.op = "tick" /\ last.opcode = Op(15, 1, 0, 7) /\ Running(chip)
    /\ hist.delay = 3 /\ hist.ticks = 2
    /\ chip.registers[1] = 1
    /\ chip.delay_timer = 1

\* C35: with X = F, 8XY4, 8XY5 and 8XY7 leave the carry / no-borrow flag
\* in VF; 8XY6 leaves 0 in VF and 8XYE leaves twice the old bit 7 of VF,
\* that is 0 or 2.
C35_FlagAsDestination ==
    [][(TickStep /\ n1(Executed) = 8 /\ n2(Executed) = 15) =>
        LET d == n4(Executed)
            vf == chip.registers[15]
            vy == chip.registers[n3(Executed)]
            after == chip'.registers[15]
        IN  /\ d = 4 => after = (IF vf + vy > 255 THEN 1 ELSE 0)
            /\ d = 5 => after = (IF vf >= vy THEN 1 ELSE 0)
            /\ d = 7 => after = (IF vy >= vf THEN 1 ELSE 0)
            /\ d = 6 => after = 0
            /\ d = 14 => after = 2 * (vf \div 128) /\ after \in {0, 2}
      ]_vars

\* C36: a tick that executes FX0A with no key pressed leaves PC and the
\* registers as they were and still counts both timers down by 1, a timer
\* at 0 staying at 0.
C36_TimersRunWhileWaiting ==
    [][(TickStep /\ IsWaitKey(Executed) /\ ~AnyKey(chip')) =>
        /\ Running(chip')
        /\ chip'.program_counter = chip.program_counter
        /\ chip'.registers = chip.registers
        /\ chip'.delay_timer = Saturating(chip.delay_timer)
        /\ chip'.sound_timer = Saturating(chip.sound_timer)
      ]_vars

\* the second tick spent waiting in F10A: the delay timer, set to 3 four
\* ticks ago, has run out, the sound timer, set a tick later, has not
C36_Witness ==
    /\ last.op = "tick" /\ IsWaitKey(last.opcode) /\ Running(chip)
    /\ ~AnyKey(chip)
    /\ chip.program_counter = At(3)
    /\ hist.delay = 3 /\ hist.ticks = 3
    /\ chip.delay_timer = 0 /\ chip.sound_timer = 1

\* C37: EX9E and EXA1 executed with Vx >= 16 stop the execution: the key
\* is not taken as not pressed, PC does not move and no register changes.
C37_KeyIndexFaults ==
    [][(TickStep /\ (IsSkipKey(Executed) \/ IsSkipNotKey(Executed))
                 /\ chip.registers[n2(Executed)] >= 16) =>
        /\ ~Running(chip')
        /\ chip'.program_counter = chip.program_counter
        /\ chip'.registers = chip.registers
        /\ DOMAIN chip'.keys = 0 .. 15
      ]_vars

\* E3A1 with V3 = 16 has stopped the chip at 0x202
C37_Witness ==
    /\ last.op = "tick" /\ last.opcode = Op(14, 3, 10, 1)
    /\ chip.registers[3] = 16
    /\ chip.panic = OutOfBounds
    /\ chip.program_counter = At(1)

IsAddToAddress(opcode) == n1(opcode) = 15 /\ n3(opcode) = 1 /\ n4(opcode) = 14

\* the DXYN `opcode` executed on c reaches a row whose screen byte or sprite
\* byte lies outside its buffer, no earlier row having ended the draw by a
\* collision; VF is 0 when the rows are computed
DrawIndexOutside(c, opcode) ==
    LET regs == [c.registers EXCEPT ![15] = 0]
        at(r) == (((regs[n3(opcode)] + r) % U8) * c.screen_width) + regs[n2(opcode)]
        outside(r) == at(r) >= c.screen_buffer.len \/ c.address + r >= c.memory.len
        collides(r) == BitAnd(VecGet(c.screen_buffer, at(r)),
                              VecGet(c.memory, c.address + r)) # 0
    IN  \E r \in 0 .. (DrawHeight(opcode) - 1) :
            outside(r) /\ \A q \in 0 .. (r - 1) : ~outside(q) /\ ~collides(q)

\* C38: FX1E leaves I + Vx in I without reducing it to 12 bits; FX33 with
\* I + 2, FX55 and FX65 with I + X at or beyond the length of the memory, and
\* a DXYN that reaches a row outside the screen buffer or the memory, stop
\* the execution; the memory has 4095 bytes, so address 0xFFF is outside.
C38_NoIndexWrapping ==
    [][TickStep =>
        LET x == n2(Executed)
            i == chip.address
        IN  /\ chip.memory.len = 4095
            /\ IsAddToAddress(Executed) =>
                  chip'.address = (i + chip.registers[x]) % 65536
            /\ (IsBcd(Executed) /\ i + 2 >= chip.memory.len) => ~Running(chip')
            /\ ((IsDump(Executed) \/ IsLoad(Executed)) /\ i + x >= chip.memory.len) =>
                  ~Running(chip')
            /\ (n1(Executed) = 13 /\ DrawIndexOutside(chip, Executed)) =>
                  ~Running(chip')
      ]_vars

\* I = 0xFFF + 0xFF = 0x10FE after F01E, and the F155 after it has stopped
\* the chip
C38_Witness ==
    /\ last.op = "tick" /\ last.opcode = Op(15, 1, 5, 5)
    /\ chip.address = 4350
    /\ chip.panic = OutOfBounds
    /\ chip.program_counter = At(3)

\* the messages of the invalid-register and invalid-address faults
OperandFaults ==
    { "Invalid register provided",
      "Invalid memory address provided to jump!",
      "Invalid memory address provided to call_subroutine!",
      "Invalid register in add_constant",
      "Invalid register in add_vx_to_address_register",
      "Invalid register in add_vx_vy",
      "Invalid register in draw_sprite",
      "Invalid register in get_binary_coded_decimal",
      "Invalid register in get_font_sprite",
      "Invalid register in register_dump",
      "Invalid register in register_load",
      "Invalid register in set_delay_timer",
      "Invalid register in set_sound_timer",
      "Invalid register in set_vx_from_vy",
      "Invalid register in shift_left_vx",
      "Invalid register in shift_right_vx",
      "Invalid register in skip_not_keypress",
      "Invalid register in skip_on_keypress",
      "Invalid register in skip_vx_not_equal_vy",
      "Invalid register in subtract_vx_vy",
      "Invalid register in subtract_vy_vx",
      "Invalid register in vx_and_vy",
      "Invalid register in vx_or_vy",
      "Invalid register in vx_xor_vy",
      "Invalid register in wait_for_key" }

\* C39: the register operands of an opcode a tick executes are in 0..15 and
\* its jump or call address is in 0..0xFFF, and no tick ends in an
\* invalid-register or invalid-address fault.
C39_DecodedOperandsValid ==
    [][TickStep =>
        /\ n2(Executed) \in 0 .. 15
        /\ n3(Executed) \in 0 .. 15
        /\ Low12(Executed) \in 0 .. 4095
        /\ chip'.panic \notin OperandFaults
        /\ DOMAIN chip'.registers = 0 .. 15
      ]_vars

\* 1FFF, the jump with the highest address, was executed and did not fault
C39_Witness ==
    /\ last.op = "tick" /\ last.opcode = OpAddr(1, 4095)
    /\ Running(chip)
    /\ chip.program_counter = 4095

\* C40: on a stack made by new(capacity) or default(), after any pushes and
\* pops, head is the number of stored items and lies between 0 and size; a
\* push or pop that fails leaves head, the items and size as they were.
C40_StackBookkeeping ==
    /\ [](/\ stk.head = Len(stk.data)
           /\ stk.head >= 0
           /\ stk.head <= stk.size)
    /\ [][(stk_last'.op \in {"push", "pop"} /\ ~stk_last'.result.ok) =>
            /\ stk'.head = stk.head
            /\ stk'.data = stk.data
            /\ stk'.size = stk.size
         ]_vars

\* a stack of capacity 3 that holds 1, 2, 1 has refused one more push
C40_Witness ==
    /\ stk_last.op = "push" /\ ~stk_last.result.ok
    /\ stk.size = 3 /\ stk.head = 3
    /\ stk.data = <<1, 2, 1>>

====
